---------------------------- MODULE Spec2Model ----------------------------
(***************************************************************************)
(* Profile extraction and candidate ranking of the Jeager CV matcher.      *)
(*                                                                         *)
(* Matcher service : src/unnamed/part_004 (lines 148-381)                  *)
(* Parser service  : src/src/services/parser.js                            *)
(*                                                                         *)
(* Scores are kept as exact integers: a match_score is a number of         *)
(* hundredths (0.9 is 90), an unrounded score is a numerator over the      *)
(* denominator 100 * max(number of profile skills, 1).                     *)
(***************************************************************************)
EXTENDS Integers, Sequences, FiniteSets, TLC

VARIABLES
    pc,          \* "start" before the call, "done" after it
    op,          \* which entry point this behaviour exercises
    candidates,  \* the candidate list handed to rankCompanies / rankProfiles
    cvData,      \* the profile handed to rankCompanies / rankProfiles
    text,        \* the text blob handed to the field extractors
    result,      \* what the call returned (or that it threw)
    file,        \* the file handed to parseCV / handleFileUpload
    stored,      \* whether the storage bucket holds the uploaded file
    record,      \* the cv_metadata row of the upload, null before the insert
    message,     \* what the upload page shows the user
    calls,       \* the invocations in progress when several are interleaved
    moduleState, \* the module-level arrays of the parser service
    hash,        \* window.location.hash of the application shell
    currentUser, \* the module-level currentUser of the application shell
    mainContent, \* what the main-content container shows
    navbar,      \* the display style of the navigation bar
    renders,     \* the page renders suspended at their await
    hashChanges  \* the hashchange events queued for the router

uploadVars == <<file, stored, record, message>>
callVars == <<calls, moduleState>>
routerVars == <<hash, currentUser, mainContent, navbar, renders, hashChanges>>
vars == <<pc, op, candidates, cvData, text, result, uploadVars, callVars,
          routerVars>>

(***************************************************************************)
(* Bounds of the model.                                                    *)
(***************************************************************************)
MaxSkills == 2        \* profile skill lists have at most this many entries
MaxCandidates == 2    \* candidate lists drawn from the pools are this long at most

(***************************************************************************)
(* JavaScript values.  A string is a sequence of one-character strings.    *)
(***************************************************************************)
Null == [t |-> "null", v |-> <<>>]
Undef == [t |-> "undefined", v |-> <<>>]
Str(s) == [t |-> "string", v |-> s]
Arr(a) == [t |-> "array", v |-> a]
Threw == [t |-> "throw", v |-> <<>>]

IsNullish(x) == x.t \in {"null", "undefined"}

\* JavaScript truthiness of null / undefined / string / array values
Truthy(x) == \/ x.t \in {"array", "object"}
             \/ x.t = "string" /\ x.v # <<>>

Min(a, b) == IF a <= b THEN a ELSE b
Max(a, b) == IF a >= b THEN a ELSE b

\* String.prototype.toLowerCase on one character
LowerChar(c) ==
    CASE c = "A" -> "a" [] c = "B" -> "b" [] c = "C" -> "c" [] c = "D" -> "d"
      [] c = "E" -> "e" [] c = "F" -> "f" [] c = "G" -> "g" [] c = "H" -> "h"
      [] c = "I" -> "i" [] c = "J" -> "j" [] c = "K" -> "k" [] c = "L" -> "l"
      [] c = "M" -> "m" [] c = "N" -> "n" [] c = "O" -> "o" [] c = "P" -> "p"
      [] c = "Q" -> "q" [] c = "R" -> "r" [] c = "S" -> "s" [] c = "T" -> "t"
      [] c = "U" -> "u" [] c = "V" -> "v" [] c = "W" -> "w" [] c = "X" -> "x"
      [] c = "Y" -> "y" [] c = "Z" -> "z" [] OTHER -> c

\* String.prototype.toLowerCase
ToLowerCase(s) == [i \in 1..Len(s) |-> LowerChar(s[i])]

\* String.prototype.includes
Includes(hay, needle) ==
    \E i \in 0..(Len(hay) - Len(needle)) :
        \A j \in 1..Len(needle) : hay[i + j] = needle[j]

\* `${x}` : the text a value takes inside a template literal
TemplateText(x) ==
    CASE x.t = "null" -> <<"n", "u", "l", "l">>
      [] x.t = "undefined" -> <<"u", "n", "d", "e", "f", "i", "n", "e", "d">>
      [] OTHER -> x.v

\* x.toLowerCase() : a TypeError when x is null or undefined
MethodToLowerCase(x) == IF IsNullish(x) THEN Threw ELSE Str(ToLowerCase(x.v))

\* x?.toLowerCase() : undefined when x is null or undefined
OptToLowerCase(x) == IF IsNullish(x) THEN Undef ELSE Str(ToLowerCase(x.v))

\* r.includes(s) where r is the outcome of the receiver expression: the
\* outcome is "true", "false", "undefined" (a short-circuited optional chain)
\* or "throw"
ChainIncludes(r, s) ==
    CASE r.t = "throw" -> "throw"
      [] r.t = "undefined" -> "undefined"
      [] OTHER -> IF Includes(r.v, s) THEN "true" ELSE "false"

\* x?.includes(s)
OptIncludes(x, s) == IF IsNullish(x) THEN "undefined" ELSE ChainIncludes(x, s)

\* Array.prototype.some over the outcomes of its callback, left to right
SomeTrue(outcomes) ==
    \E i \in 1..Len(outcomes) :
        /\ outcomes[i] = "true"
        /\ \A j \in 1..(i - 1) : outcomes[j] # "throw"

\* a callback of some / filter / map raised before the iteration ended
SomeThrows(outcomes) ==
    \E i \in 1..Len(outcomes) :
        /\ outcomes[i] = "throw"
        /\ \A j \in 1..(i - 1) : outcomes[j] # "true"

AnyThrows(outcomes) == \E i \in 1..Len(outcomes) : outcomes[i] = "throw"

\* Array.prototype.filter, keeping the order
RECURSIVE SelectIdx(_, _, _)
SelectIdx(s, keep, i) ==
    IF i > Len(s) THEN <<>>
    ELSE IF keep[i] THEN <<s[i]>> \o SelectIdx(s, keep, i + 1)
    ELSE SelectIdx(s, keep, i + 1)

\* Array.prototype.slice(0, n)
Slice0(s, n) == SubSeq(s, 1, Min(n, Len(s)))

(***************************************************************************)
(* Matcher service: company scoring (src/unnamed/part_004, 159-251).       *)
(*                                                                         *)
(* cvData is Null, Undef or an object                                      *)
(*   [t |-> "object", skills, industries, experience, personal]            *)
(* whose fields are Undef when the property is missing.  A company is      *)
(*   [name, industry, size, location, description], each a JavaScript      *)
(* value.                                                                  *)
(***************************************************************************)

\* cvData.industries || []
CvIndustries(cv) == IF Truthy(cv.industries) THEN cv.industries.v ELSE <<>>

\* cvData.skills || []
CvSkills(cv) == IF Truthy(cv.skills) THEN cv.skills.v ELSE <<>>

\* (cvData.skills || []).map((s) => s.name.toLowerCase())
CvSkillsLower(cv) ==
    [i \in 1..Len(CvSkills(cv)) |-> MethodToLowerCase(CvSkills(cv)[i].name)]

CvSkillsThrows(cv) ==
    \E i \in 1..Len(CvSkills(cv)) : CvSkillsLower(cv)[i].t = "throw"

\* cvData.personal?.location
CvLocation(cv) == IF IsNullish(cv.personal) THEN Undef ELSE cv.personal.location

\* company.industry?.toLowerCase()
CompanyIndustryLower_NoOptionalChain(company) == MethodToLowerCase(company.industry)
CompanyIndustryLower(company) == OptToLowerCase(company.industry)

\* the callback of cvIndustries.some / cvIndustries.filter, per industry
CompanyIndustryOutcomes(company, cv) ==
    [i \in 1..Len(CvIndustries(cv)) |->
        ChainIncludes(CompanyIndustryLower(company), ToLowerCase(CvIndustries(cv)[i]))]

\* `${company.name} ${company.description}`.toLowerCase()
CompanyText(company) ==
    ToLowerCase(TemplateText(company.name) \o <<" ">> \o TemplateText(company.description))

\* the callback of cvSkills.filter, per profile skill
CompanySkillKeep(company, cv) ==
    [i \in 1..Len(CvSkills(cv)) |->
        /\ CvSkillsLower(cv)[i].t = "string"
        /\ Includes(CompanyText(company), CvSkillsLower(cv)[i].v)]

Count(keep) == Cardinality({i \in DOMAIN keep : keep[i]})

\* the denominator of the unrounded scores: Math.max(cvSkills.length, 1)
ScoreDen(cv) == Max(Len(CvSkills(cv)), 1)

\* Industry match (40%)
CompanyIndustryTerm(company, cv) ==
    IF SomeTrue(CompanyIndustryOutcomes(company, cv)) THEN 40 * ScoreDen(cv) ELSE 0

\* Skills match (30%): Math.min(matching / Math.max(n, 1), 1.0) * 0.3
CompanySkillsTerm_AnyMatch(company, cv) ==
    IF Count(CompanySkillKeep(company, cv)) > 0 THEN 30 * ScoreDen(cv) ELSE 0
CompanySkillsTerm(company, cv) ==
    30 * Min(Count(CompanySkillKeep(company, cv)), ScoreDen(cv))

\* the location term testing includes(cvLocation || '') as line 248 does
CompanyLocationTerm_EmptyNeedle(company, cv) ==
    IF OptIncludes(company.location,
                   IF Truthy(CvLocation(cv)) THEN CvLocation(cv).v ELSE <<>>) = "true"
    THEN 20 * ScoreDen(cv)
    ELSE IF Truthy(company.location) THEN 10 * ScoreDen(cv)
    ELSE 0

\* Location match (20%), partial credit 10%
CompanyLocationTerm_AlwaysPartial(company, cv) ==
    IF /\ Truthy(CvLocation(cv))
       /\ OptIncludes(company.location, CvLocation(cv).v) = "true"
    THEN 20 * ScoreDen(cv)
    ELSE 10 * ScoreDen(cv)
CompanyLocationTerm(company, cv) ==
    IF /\ Truthy(CvLocation(cv))
       /\ OptIncludes(company.location, CvLocation(cv).v) = "true"
    THEN 20 * ScoreDen(cv)
    ELSE IF Truthy(company.location) THEN 10 * ScoreDen(cv)
    ELSE 0

Size51 == <<"5", "1", "-", "2", "0", "0">>
Size201 == <<"2", "0", "1", "-", "5", "0", "0">>

\* Size preference (10%)
CompanySizeTerm_Penalty(company, cv) ==
    IF /\ Truthy(company.size)
       /\ (Includes(company.size.v, Size51) \/ Includes(company.size.v, Size201))
    THEN - 10 * ScoreDen(cv)
    ELSE 0
CompanySizeTerm(company, cv) ==
    IF /\ Truthy(company.size)
       /\ (Includes(company.size.v, Size51) \/ Includes(company.size.v, Size201))
    THEN 10 * ScoreDen(cv)
    ELSE 0

\* calculateCompanyMatchScore: [threw, num] with score = num / (100 * ScoreDen)
calculateCompanyMatchScore(company, cv) ==
    [threw |-> \/ SomeThrows(CompanyIndustryOutcomes(company, cv))
               \/ CvSkillsThrows(cv),
     num |-> Min(CompanyIndustryTerm(company, cv) + CompanySkillsTerm(company, cv)
                 + CompanyLocationTerm(company, cv) + CompanySizeTerm(company, cv),
                 100 * ScoreDen(cv))]

\* getCompanyMatchingCriteria
getCompanyMatchingCriteria(company, cv) ==
    LET matchedSkills ==
            SelectIdx([i \in 1..Len(CvSkills(cv)) |-> CvSkills(cv)[i].name.v],
                      CompanySkillKeep(company, cv), 1)
        industryKeep ==
            [i \in 1..Len(CvIndustries(cv)) |->
                CompanyIndustryOutcomes(company, cv)[i] = "true"]
        needle == IF Truthy(CvLocation(cv)) THEN CvLocation(cv).v ELSE <<>>
    IN  [threw |-> \/ AnyThrows(CompanyIndustryOutcomes(company, cv))
                   \/ CvSkillsThrows(cv),
         val |-> [matched_skills |-> Slice0(matchedSkills, 5),
                  matched_industries |-> SelectIdx(CvIndustries(cv), industryKeep, 1),
                  location_match |-> OptIncludes(company.location, needle) = "true",
                  size_preference |-> company.size,
                  explanation |-> Len(matchedSkills)]]

\* Number.prototype.toFixed(2) followed by parseFloat: the nearest hundredth
\* of num / den.  An exact half (num / den = h + 1/2) is decided by the
\* IEEE-754 double that the additions of lines 191-222 produce, which lies
\* just above the half for the hundredths listed here and just below it for
\* the others (den <= 8).
TieRoundsUp == {27, 37, 47, 52, 57, 62, 67, 77}

ToFixed2(num, den) ==
    LET h == num \div den
        r == num % den
    IN  IF 2 * r > den THEN h + 1
        ELSE IF 2 * r < den THEN h
        ELSE IF h \in TieRoundsUp THEN h + 1 ELSE h

\* Array.prototype.sort((a, b) => b.match_score - a.match_score): a stable
\* sort, so an element goes behind every element whose score is not smaller
\* a sort that puts an element in front of the elements of equal score
RECURSIVE InsertDesc_BeforeTies(_, _)
InsertDesc_BeforeTies(sorted, x) ==
    IF sorted = <<>> THEN <<x>>
    ELSE IF Head(sorted).match_score > x.match_score
         THEN <<Head(sorted)>> \o InsertDesc_BeforeTies(Tail(sorted), x)
         ELSE <<x>> \o sorted

RECURSIVE InsertDesc(_, _)
InsertDesc(sorted, x) ==
    IF sorted = <<>> THEN <<x>>
    ELSE IF Head(sorted).match_score >= x.match_score
         THEN <<Head(sorted)>> \o InsertDesc(Tail(sorted), x)
         ELSE <<x>> \o sorted

RECURSIVE SortDescFrom(_, _, _)
SortDescFrom(list, i, acc) ==
    IF i > Len(list) THEN acc
    ELSE SortDescFrom(list, i + 1, InsertDesc(acc, list[i]))

SortDesc_Unsorted(list) == list
SortDesc(list) == SortDescFrom(list, 1, <<>>)

\* the object literal of lines 168-172
CompanyResult(company, cv) ==
    [candidate |-> company,
     match_score |-> ToFixed2(calculateCompanyMatchScore(company, cv).num, ScoreDen(cv)),
     matching_criteria |-> getCompanyMatchingCriteria(company, cv).val]

\* the guard of lines 160 / 265: !list || !cvData
RankGuard_ListOnly(list, cv) == ~Truthy(list)
RankGuard_CvOnly(list, cv) == ~Truthy(cv)
RankGuard(list, cv) == ~Truthy(list) \/ ~Truthy(cv)

\* rankCompanies: [threw, val]
rankCompanies(companies, cv) ==
    IF RankGuard(companies, cv) THEN [threw |-> FALSE, val |-> <<>>]
    ELSE IF IsNullish(companies) THEN [threw |-> TRUE, val |-> <<>>]  \* null.map
    ELSE IF companies.v = <<>> THEN [threw |-> FALSE, val |-> <<>>]
    ELSE IF IsNullish(cv) THEN [threw |-> TRUE, val |-> <<>>]  \* null.industries
    ELSE IF \E i \in 1..Len(companies.v) :
                \/ calculateCompanyMatchScore(companies.v[i], cv).threw
                \/ getCompanyMatchingCriteria(companies.v[i], cv).threw
         THEN [threw |-> TRUE, val |-> <<>>]
         ELSE [threw |-> FALSE,
               val |-> SortDesc([i \in 1..Len(companies.v) |->
                                    CompanyResult(companies.v[i], cv)])]

\* the argument list after the call: map (lines 164, 269) builds a new array
\* and sort (lines 176, 285) reorders that one, not the argument
ArgumentAfterRank_SortedInPlace(list, ranked) ==
    IF ranked.threw \/ ranked.val = <<>> THEN list
    ELSE Arr([i \in 1..Len(ranked.val) |-> ranked.val[i].candidate])
ArgumentAfterRank(list, ranked) == list

(***************************************************************************)
(* Matcher service: person scoring (src/unnamed/part_004, 264-375).        *)
(*                                                                         *)
(* A person is [name, current_role, current_company, location, headline,   *)
(* skills]; skills is Null, Undef or an array of strings.                  *)
(***************************************************************************)

\* (profile.skills || []).map((s) => s.toLowerCase())
ProfileSkillsLower(profile) ==
    IF Truthy(profile.skills)
    THEN [i \in 1..Len(profile.skills.v) |-> ToLowerCase(profile.skills.v[i])]
    ELSE <<>>

\* the callback of cvSkills.filter: profileSkills.includes(skill)
SharedSkillKeep(profile, cv) ==
    [i \in 1..Len(CvSkills(cv)) |->
        /\ CvSkillsLower(cv)[i].t = "string"
        /\ \E j \in 1..Len(ProfileSkillsLower(profile)) :
              ProfileSkillsLower(profile)[j] = CvSkillsLower(cv)[i].v]

\* `${profile.headline} ${profile.current_company}`.toLowerCase()
ProfileText(profile) ==
    ToLowerCase(TemplateText(profile.headline) \o <<" ">>
                \o TemplateText(profile.current_company))

\* the callback of cvIndustries.some / cvIndustries.filter, per industry
SharedInterestKeep(profile, cv) ==
    [i \in 1..Len(CvIndustries(cv)) |->
        Includes(ProfileText(profile), ToLowerCase(CvIndustries(cv)[i]))]

\* cvData.experience?.length || 0
CvExperience(cv) == IF IsNullish(cv.experience) THEN 0 ELSE Len(cv.experience.v)

SeniorWords ==
    { <<"s", "e", "n", "i", "o", "r">>, <<"l", "e", "a", "d">>,
      <<"m", "a", "n", "a", "g", "e", "r">>,
      <<"d", "i", "r", "e", "c", "t", "o", "r">> }

\* /senior|lead|manager|director/i.test(profile.current_role || '')
IsSeniorRole(profile) ==
    LET role == IF Truthy(profile.current_role) THEN profile.current_role.v ELSE <<>>
    IN  \E w \in SeniorWords : Includes(ToLowerCase(role), w)

\* the experience length from which a profile counts as senior (line 315)
SeniorExperience == 5

\* Shared skills (40%)
ProfileSkillsTerm(profile, cv) ==
    40 * Min(Count(SharedSkillKeep(profile, cv)), ScoreDen(cv))

\* Industry/interests (30%)
ProfileInterestTerm(profile, cv) ==
    IF \E i \in 1..Len(CvIndustries(cv)) : SharedInterestKeep(profile, cv)[i]
    THEN 30 * ScoreDen(cv) ELSE 0

\* Seniority alignment (20%)
ProfileSeniorityTerm_StrictlyMore(profile, cv) ==
    IF CvExperience(cv) > SeniorExperience /\ IsSeniorRole(profile)
    THEN 20 * ScoreDen(cv)
    ELSE IF CvExperience(cv) < SeniorExperience /\ ~IsSeniorRole(profile)
    THEN 20 * ScoreDen(cv)
    ELSE 10 * ScoreDen(cv)
ProfileSeniorityTerm(profile, cv) ==
    IF CvExperience(cv) >= SeniorExperience /\ IsSeniorRole(profile)
    THEN 20 * ScoreDen(cv)
    ELSE IF CvExperience(cv) < SeniorExperience /\ ~IsSeniorRole(profile)
    THEN 20 * ScoreDen(cv)
    ELSE 10 * ScoreDen(cv)

\* profile.location?.includes(cvLocation), evaluated only for a truthy cvLocation
ProfileLocationOutcome(profile, cv) ==
    IF Truthy(CvLocation(cv))
    THEN OptIncludes(profile.location, CvLocation(cv).v)
    ELSE "false"

\* Location (10%)
ProfileLocationTerm(profile, cv) ==
    IF ProfileLocationOutcome(profile, cv) = "true" THEN 10 * ScoreDen(cv) ELSE 0

\* calculateProfileMatchScore: [threw, num] with score = num / (100 * ScoreDen)
calculateProfileMatchScore(profile, cv) ==
    [threw |-> \/ CvSkillsThrows(cv)
               \/ ProfileLocationOutcome(profile, cv) = "throw",
     num |-> Min(ProfileSkillsTerm(profile, cv) + ProfileInterestTerm(profile, cv)
                 + ProfileSeniorityTerm(profile, cv) + ProfileLocationTerm(profile, cv),
                 100 * ScoreDen(cv))]

\* getSharedSkills: the lower-cased profile skill names the candidate lists
getSharedSkills(profile, cv) ==
    Slice0(SelectIdx([i \in 1..Len(CvSkills(cv)) |-> CvSkillsLower(cv)[i].v],
                     SharedSkillKeep(profile, cv), 1), 5)

\* getSharedInterests
getSharedInterests(profile, cv) ==
    SelectIdx(CvIndustries(cv), SharedInterestKeep(profile, cv), 1)

\* the prefix of s before its first space: s.split(' ')[0]
RECURSIVE FirstWord(_)
FirstWord(s) ==
    IF s = <<>> \/ Head(s) = " " THEN <<>> ELSE <<Head(s)>> \o FirstWord(Tail(s))

\* the whole name in place of its first word
FirstNameText_WholeName(profile) ==
    IF IsNullish(profile.name) THEN TemplateText(Undef) ELSE profile.name.v

\* `${profile.name?.split(' ')[0]}`
FirstNameText(profile) ==
    IF IsNullish(profile.name) THEN TemplateText(Undef) ELSE FirstWord(profile.name.v)

\* a template slot the chosen template does not have
NotReferenced == [t |-> "unreferenced", v |-> <<>>]

\* generateConversationStarter without its first branch
generateConversationStarter_NoCombined(profile, cv) ==
    LET sharedSkills == getSharedSkills(profile, cv)
        sharedInterests == getSharedInterests(profile, cv)
        first == Str(FirstNameText(profile))
        company == Str(TemplateText(profile.current_company))
    IN  IF Len(sharedSkills) > 0
        THEN [template |-> "skill", first_name |-> first,
              skill |-> Str(sharedSkills[1]), interest |-> NotReferenced,
              current_role |-> NotReferenced, current_company |-> company]
        ELSE IF Len(sharedInterests) > 0
        THEN [template |-> "interest", first_name |-> first,
              skill |-> NotReferenced, interest |-> Str(sharedInterests[1]),
              current_role |-> NotReferenced, current_company |-> company]
        ELSE [template |-> "generic", first_name |-> first,
              skill |-> NotReferenced, interest |-> NotReferenced,
              current_role |-> NotReferenced, current_company |-> company]

\* generateConversationStarter: the template chosen and the text put in each
\* of its slots
generateConversationStarter(profile, cv) ==
    LET sharedSkills == getSharedSkills(profile, cv)
        sharedInterests == getSharedInterests(profile, cv)
        first == Str(FirstNameText(profile))
        company == Str(TemplateText(profile.current_company))
    IN  IF Len(sharedSkills) > 0 /\ Len(sharedInterests) > 0
        THEN [template |-> "combined", first_name |-> first,
              skill |-> Str(sharedSkills[1]), interest |-> Str(sharedInterests[1]),
              current_role |-> Str(TemplateText(profile.current_role)),
              current_company |-> company]
        ELSE IF Len(sharedSkills) > 0
        THEN [template |-> "skill", first_name |-> first,
              skill |-> Str(sharedSkills[1]), interest |-> NotReferenced,
              current_role |-> NotReferenced, current_company |-> company]
        ELSE IF Len(sharedInterests) > 0
        THEN [template |-> "interest", first_name |-> first,
              skill |-> NotReferenced, interest |-> Str(sharedInterests[1]),
              current_role |-> NotReferenced, current_company |-> company]
        ELSE [template |-> "generic", first_name |-> first,
              skill |-> NotReferenced, interest |-> NotReferenced,
              current_role |-> NotReferenced, current_company |-> company]

\* the object literal of lines 275-281
ProfileResult(profile, cv) ==
    [candidate |-> profile,
     match_score |-> ToFixed2(calculateProfileMatchScore(profile, cv).num, ScoreDen(cv)),
     shared_skills |-> getSharedSkills(profile, cv),
     shared_interests |-> getSharedInterests(profile, cv),
     conversation_starter |-> generateConversationStarter(profile, cv)]

\* rankProfiles: [threw, val]
rankProfiles(profiles, cv) ==
    IF RankGuard(profiles, cv) THEN [threw |-> FALSE, val |-> <<>>]
    ELSE IF IsNullish(profiles) THEN [threw |-> TRUE, val |-> <<>>]  \* null.map
    ELSE IF profiles.v = <<>> THEN [threw |-> FALSE, val |-> <<>>]
    ELSE IF IsNullish(cv) THEN [threw |-> TRUE, val |-> <<>>]  \* null.skills
    ELSE IF \E i \in 1..Len(profiles.v) :
                calculateProfileMatchScore(profiles.v[i], cv).threw
         THEN [threw |-> TRUE, val |-> <<>>]
         ELSE [threw |-> FALSE,
               val |-> SortDesc([i \in 1..Len(profiles.v) |->
                                    ProfileResult(profiles.v[i], cv)])]

(***************************************************************************)
(* Parser service: the confidence checklist                                *)
(* (src/src/services/parser.js, 306-318).                                  *)
(***************************************************************************)
IsDigit(c) == c \in {"0", "1", "2", "3", "4", "5", "6", "7", "8", "9"}

\* the class [-.\s]
IsPhoneSep(c) == c \in {"-", ".", " ", "\n", "\t"}

DigitsAt(s, i, n) == /\ i + n - 1 <= Len(s)
                     /\ \A k \in i..(i + n - 1) : IsDigit(s[k])

\* the position after an optional separator at position i
SkipSep(s, i) == IF i <= Len(s) /\ IsPhoneSep(s[i]) THEN i + 1 ELSE i

\* /\d{3}[-.\s]?\d{3}[-.\s]?\d{4}/.test(text)
HasPhonePattern(s) ==
    \E i \in 1..Len(s) :
        /\ DigitsAt(s, i, 3)
        /\ LET p == SkipSep(s, i + 3)
           IN  /\ DigitsAt(s, p, 3)
               /\ DigitsAt(s, SkipSep(s, p + 3), 4)

\* /(19|20)\d{2}/.test(text)
HasYearToken(s) ==
    \E i \in 1..Len(s) :
        /\ i + 3 <= Len(s)
        /\ <<s[i], s[i + 1]>> \in {<<"1", "9">>, <<"2", "0">>}
        /\ DigitsAt(s, i + 2, 2)

LinkedInDomain == <<"l", "i", "n", "k", "e", "d", "i", "n", ".", "c", "o", "m">>

ChecklistDegreeWords ==
    { <<"b", "a", "c", "h", "e", "l", "o", "r">>,
      <<"m", "a", "s", "t", "e", "r">>,
      <<"p", "h", "d">> }

\* text.includes('@')
HasAt(s) == Includes(s, <<"@">>)

\* /linkedin\.com/i.test(text)
HasLinkedIn(s) == Includes(ToLowerCase(s), LinkedInDomain)

\* /bachelor|master|phd/i.test(text)
HasDegreeWord(s) == \E w \in ChecklistDegreeWords : Includes(ToLowerCase(s), w)

\* the array `checks` of lines 308-314
AccuracyChecks(s) ==
    <<HasAt(s), HasPhonePattern(s), HasLinkedIn(s), HasYearToken(s), HasDegreeWord(s)>>

\* the baseline added at line 317, in hundredths
AccuracyBaseline_Zero == 0
AccuracyBaseline == 20

\* calculateAccuracyScore, in hundredths:
\* Math.min(checks.filter(Boolean).length / checks.length + 0.2, 1.0)
calculateAccuracyScore(s) ==
    Min((100 * Count(AccuracyChecks(s))) \div Len(AccuracyChecks(s)) + AccuracyBaseline,
        100)

(***************************************************************************)
(* Parser service: the field extractors                                    *)
(* (src/src/services/parser.js, 16-29 and 133-330).                        *)
(***************************************************************************)
TECHNICAL_SKILLS ==
    <<<<"j", "a", "v", "a", "s", "c", "r", "i", "p", "t">>,
       <<"p", "y", "t", "h", "o", "n">>,
       <<"j", "a", "v", "a">>,
       <<"c", "+", "+">>,
       <<"r", "e", "a", "c", "t">>,
       <<"v", "u", "e">>,
       <<"a", "n", "g", "u", "l", "a", "r">>,
       <<"n", "o", "d", "e", ".", "j", "s">>,
       <<"t", "y", "p", "e", "s", "c", "r", "i", "p", "t">>,
       <<"g", "o">>,
       <<"r", "u", "s", "t">>,
       <<"s", "q", "l">>,
       <<"p", "o", "s", "t", "g", "r", "e", "s", "q", "l">>,
       <<"m", "o", "n", "g", "o", "d", "b">>,
       <<"r", "e", "d", "i", "s">>,
       <<"d", "o", "c", "k", "e", "r">>,
       <<"k", "u", "b", "e", "r", "n", "e", "t", "e", "s">>,
       <<"a", "w", "s">>,
       <<"a", "z", "u", "r", "e">>,
       <<"g", "c", "p">>,
       <<"g", "i", "t">>,
       <<"c", "i", "/", "c", "d">>,
       <<"m", "a", "c", "h", "i", "n", "e", " ", "l", "e", "a", "r", "n", "i",
         "n", "g">>,
       <<"a", "i">>,
       <<"d", "a", "t", "a", " ", "s", "c", "i", "e", "n", "c", "e">>,
       <<"t", "e", "n", "s", "o", "r", "f", "l", "o", "w">>,
       <<"p", "y", "t", "o", "r", "c", "h">>>>

SOFT_SKILLS ==
    <<<<"l", "e", "a", "d", "e", "r", "s", "h", "i", "p">>,
       <<"c", "o", "m", "m", "u", "n", "i", "c", "a", "t", "i", "o", "n">>,
       <<"t", "e", "a", "m", "w", "o", "r", "k">>,
       <<"p", "r", "o", "b", "l", "e", "m", "-", "s", "o", "l", "v", "i", "n",
         "g">>,
       <<"c", "r", "i", "t", "i", "c", "a", "l", " ", "t", "h", "i", "n", "k",
         "i", "n", "g">>,
       <<"t", "i", "m", "e", " ", "m", "a", "n", "a", "g", "e", "m", "e", "n",
         "t">>,
       <<"c", "o", "l", "l", "a", "b", "o", "r", "a", "t", "i", "o", "n">>,
       <<"a", "d", "a", "p", "t", "a", "b", "i", "l", "i", "t", "y">>,
       <<"c", "r", "e", "a", "t", "i", "v", "i", "t", "y">>,
       <<"e", "m", "o", "t", "i", "o", "n", "a", "l", " ", "i", "n", "t", "e",
         "l", "l", "i", "g", "e", "n", "c", "e">>,
       <<"n", "e", "g", "o", "t", "i", "a", "t", "i", "o", "n">>,
       <<"p", "u", "b", "l", "i", "c", " ", "s", "p", "e", "a", "k", "i", "n",
         "g">>>>

\* the list `industries` of lines 271-274
IndustryNames ==
    <<<<"T", "e", "c", "h", "n", "o", "l", "o", "g", "y">>,
       <<"F", "i", "n", "a", "n", "c", "e">>,
       <<"H", "e", "a", "l", "t", "h", "c", "a", "r", "e">>,
       <<"E", "d", "u", "c", "a", "t", "i", "o", "n">>,
       <<"R", "e", "t", "a", "i", "l">>,
       <<"M", "a", "n", "u", "f", "a", "c", "t", "u", "r", "i", "n", "g">>,
       <<"C", "o", "n", "s", "u", "l", "t", "i", "n", "g">>,
       <<"S", "a", "a", "S">>,
       <<"F", "i", "n", "t", "e", "c", "h">>,
       <<"E", "-", "c", "o", "m", "m", "e", "r", "c", "e">>>>

\* a JavaScript number
Num(n) == [t |-> "number", n |-> n]

\* the characters \s matches
IsSpace(c) == c \in {" ", "\t", "\n"}

\* the characters \w matches
IsWordChar(c) ==
    \/ IsDigit(c)
    \/ c = "_"
    \/ LowerChar(c) # c
    \/ c \in {"a", "b", "c", "d", "e", "f", "g", "h", "i", "j", "k", "l", "m",
              "n", "o", "p", "q", "r", "s", "t", "u", "v", "w", "x", "y", "z"}

\* \b between positions i - 1 and i of s
WordBoundary(s, i) ==
    (i > 1 /\ i - 1 <= Len(s) /\ IsWordChar(s[i - 1]))
        # (i >= 1 /\ i <= Len(s) /\ IsWordChar(s[i]))

\* String.prototype.split('\n'): the pieces between consecutive line breaks
SplitLines(s) ==
    LET cuts == {i \in 1..Len(s) : s[i] = "\n"} \cup {0, Len(s) + 1}
        Cut(k) == CHOOSE x \in cuts : Cardinality({y \in cuts : y < x}) = k
    IN  [k \in 1..(Cardinality(cuts) - 1) |-> SubSeq(s, Cut(k - 1) + 1, Cut(k) - 1)]

\* String.prototype.trim
Trim(s) ==
    LET ink == {i \in 1..Len(s) : ~IsSpace(s[i])}
    IN  IF ink = {} THEN <<>>
        ELSE SubSeq(s, CHOOSE i \in ink : \A j \in ink : i <= j,
                       CHOOSE i \in ink : \A j \in ink : i >= j)

\* Array.prototype.slice(from, to) with 0-based bounds
Slice(s, from, to) == SubSeq(s, from + 1, Min(to, Len(s)))

\* Array.prototype.join(' ')
RECURSIVE JoinSpace(_)
JoinSpace(ss) ==
    IF ss = <<>> THEN <<>>
    ELSE IF Len(ss) = 1 THEN ss[1]
    ELSE ss[1] \o <<" ">> \o JoinSpace(Tail(ss))

\* the first index of the list whose flag is set, 0 when there is none
FirstIdx(keep) ==
    IF \E i \in DOMAIN keep : keep[i]
    THEN CHOOSE i \in DOMAIN keep : keep[i] /\ \A j \in 1..(i - 1) : ~keep[j]
    ELSE 0

\* the module-level arrays as declared at lines 17-29
DeclaredModuleState == [technical |-> TECHNICAL_SKILLS, soft |-> SOFT_SKILLS]

\* the module-level arrays after a call of extractSkills, which reads them
\* with forEach; a version that takes the entries out as it tests them
ModuleStateAfterExtract_Drained(state) == [technical |-> <<>>, soft |-> <<>>]
ModuleStateAfterExtract(state) == state

\* extractSkills on the module-level arrays as they are when it is called:
\* the vocabulary entries the lower-cased text includes, the technical ones
\* first, each in vocabulary order
extractSkillsFrom(state, s) ==
    LET textLower == ToLowerCase(s)
        technical ==
            SelectIdx(state.technical,
                      [i \in 1..Len(state.technical) |->
                          Includes(textLower, ToLowerCase(state.technical[i]))], 1)
        soft ==
            SelectIdx(state.soft,
                      [i \in 1..Len(state.soft) |->
                          Includes(textLower, ToLowerCase(state.soft[i]))], 1)
    IN  [i \in 1..Len(technical) |->
            [name |-> Str(technical[i]), category |-> "technical"]]
        \o [i \in 1..Len(soft) |-> [name |-> Str(soft[i]), category |-> "soft"]]

\* extractSkills
extractSkills(s) == extractSkillsFrom(DeclaredModuleState, s)

\* extractIndustries: the names whose lower-cased form the lower-cased text
\* includes, in list order
extractIndustries(s) ==
    LET textLower == ToLowerCase(s)
    IN  SelectIdx(IndustryNames,
                  [i \in 1..Len(IndustryNames) |->
                      Includes(textLower, ToLowerCase(IndustryNames[i]))], 1)

SetMin(S) == CHOOSE x \in S : \A y \in S : x <= y
SetMax(S) == CHOOSE x \in S : \A y \in S : x >= y

\* the last position of the longest run of flagged positions that starts at
\* position i; i - 1 when the run is empty
RunEnd(flags, i) ==
    LET stop == {k \in i..Len(flags) : ~flags[k]}
    IN  IF stop = {} THEN Len(flags) ELSE SetMin(stop) - 1

\* the first position of the longest run of flagged positions that ends at i
RunStart(flags, i) ==
    LET stop == {k \in 1..i : ~flags[k]}
    IN  IF stop = {} THEN 1 ELSE SetMax(stop) + 1

IsLetter(c) == IsWordChar(c) /\ ~IsDigit(c) /\ c # "_"

\* the classes [A-Za-z0-9._%+-], [A-Za-z0-9.-] and [A-Z|a-z] of emailRegex
IsEmailLocalChar(c) == IsLetter(c) \/ IsDigit(c) \/ c \in {".", "_", "%", "+",
    "-"}
IsEmailDomainChar(c) == IsLetter(c) \/ IsDigit(c) \/ c \in {".", "-"}
IsEmailTldChar(c) == IsLetter(c) \/ c = "|"

\* emailRegex around the "@" at position k: the positions a match can start
\* at, the dots that can end its domain part, and the ends after such a dot
EmailStarts(s, k) ==
    {i \in RunStart([j \in 1..Len(s) |-> IsEmailLocalChar(s[j])], k - 1)..(k - 1) : WordBoundary(s, i)}

EmailEnds(s, d) ==
    {e \in (d + 3)..RunEnd([j \in 1..Len(s) |-> IsEmailTldChar(s[j])], d + 2) : WordBoundary(s, e + 1)}

EmailDots(s, k) ==
    {d \in (k + 1)..(RunEnd([j \in 1..Len(s) |-> IsEmailDomainChar(s[j])], k + 1) - 1) :
        s[d + 1] = "." /\ EmailEnds(s, d) # {}}

\* text.match(emailRegex)?.[0] : the leftmost match, each quantifier as long
\* as the rest of the pattern allows; null when nothing matches
EmailMatch(s) ==
    LET ats == {k \in 1..Len(s) :
                   s[k] = "@" /\ EmailStarts(s, k) # {} /\ EmailDots(s,
                       k) # {}}
    IN  IF ats = {} THEN Null
        ELSE LET k == SetMin(ats)
                 d == SetMax(EmailDots(s, k))
             IN  Str(SubSeq(s, SetMin(EmailStarts(s, k)), SetMax(EmailEnds(s,
                 d))))

\* the position after an optional character c at position i
SkipChar(s, i, c) == IF i <= Len(s) /\ s[i] = c THEN i + 1 ELSE i

\* \(?\d{3}\)?[-.\s]?\d{3}[-.\s]?\d{4} from position p: the last position of
\* the match, 0 when there is none
PhoneCoreEnd(s, p) ==
    LET a == SkipChar(s, p, "(")
        d == SkipSep(s, SkipChar(s, a + 3, ")"))
        e == SkipSep(s, d + 3)
    IN  IF DigitsAt(s, a, 3) /\ DigitsAt(s, d, 3) /\ DigitsAt(s, e, 4)
        THEN e + 3 ELSE 0

\* (\+?\d{1,3}[-.\s]?) from position i with n digits, followed by the rest
PhonePrefixedEnd(s, i, n) ==
    LET a == SkipChar(s, i, "+")
    IN  IF DigitsAt(s, a, n) THEN PhoneCoreEnd(s, SkipSep(s, a + n)) ELSE 0

\* phoneRegex from position i: the country-code group is tried first, with
\* three, two and one digit, then the pattern without it
PhoneEndAt(s, i) ==
    IF PhonePrefixedEnd(s, i, 3) # 0 THEN PhonePrefixedEnd(s, i, 3)
    ELSE IF PhonePrefixedEnd(s, i, 2) # 0 THEN PhonePrefixedEnd(s, i, 2)
    ELSE IF PhonePrefixedEnd(s, i, 1) # 0 THEN PhonePrefixedEnd(s, i, 1)
    ELSE PhoneCoreEnd(s, i)

\* text.match(phoneRegex)?.[0]
PhoneMatch(s) ==
    LET starts == {i \in 1..Len(s) :
                      (IsDigit(s[i]) \/ s[i] \in {"+", "("}) /\ PhoneEndAt(s,
                          i) # 0}
    IN  IF starts = {} THEN Null
        ELSE Str(SubSeq(s, SetMin(starts), PhoneEndAt(s, SetMin(starts))))

LinkedInPath == <<"l", "i", "n", "k", "e", "d", "i", "n", ".", "c", "o", "m",
            "/", "i", "n", "/">>

IsSlugChar(c) == IsLetter(c) \/ IsDigit(c) \/ c = "-"

\* text.match(linkedinRegex)?.[0]
LinkedInMatch(s) ==
    LET n == Len(LinkedInPath)
        starts == {i \in 1..(Len(s) - n) :
                      /\ ToLowerCase(SubSeq(s, i, i + n - 1)) = LinkedInPath
                      /\ IsSlugChar(s[i + n])}
    IN  IF starts = {} THEN Null
        ELSE Str(SubSeq(s, SetMin(starts),
                        RunEnd([j \in 1..Len(s) |-> IsSlugChar(s[j])], SetMin(starts) + n)))

\* text.split('\n').filter((line) => line.trim().length > 0)
NonEmptyLines(s) ==
    LET lines == SplitLines(s)
    IN  SelectIdx(lines, [i \in 1..Len(lines) |-> Trim(lines[i]) # <<>>], 1)

UnknownName == <<"U", "n", "k", "n", "o", "w", "n">>
HttpsPrefix == <<"h", "t", "t", "p", "s", ":", "/", "/">>

\* extractContactInfo returning the matched path as it stands in the text
extractContactInfo_BarePath(s) ==
    LET lines == NonEmptyLines(s)
    IN  [t |-> "object",
         name |-> IF lines # <<>> /\ Trim(lines[1]) # <<>>
                  THEN Str(Trim(lines[1])) ELSE Str(UnknownName),
         email |-> EmailMatch(s),
         phone |-> PhoneMatch(s),
         linkedin_url |-> LinkedInMatch(s),
         location |-> Null]

\* extractContactInfo
extractContactInfo(s) ==
    LET lines == NonEmptyLines(s)
        linkedinMatch == LinkedInMatch(s)
    IN  [t |-> "object",
         name |-> IF lines # <<>> /\ Trim(lines[1]) # <<>>
                  THEN Str(Trim(lines[1])) ELSE Str(UnknownName),
         email |-> EmailMatch(s),
         phone |-> PhoneMatch(s),
         linkedin_url |-> IF linkedinMatch.t = "string"
                          THEN Str(HttpsPrefix \o linkedinMatch.v) ELSE Null,
         location |-> Null]

SummaryKeywords ==
    {<<"s", "u", "m", "m", "a", "r", "y">>, <<"o", "b", "j", "e", "c", "t",
       "i", "v", "e">>, <<"p", "r", "o", "f", "i", "l", "e">>, <<"a", "b",
       "o", "u", "t">>}

\* a line whose lower-cased text includes one of the keywords
HasKeyword(line, keywords) ==
    \E kw \in keywords : Includes(ToLowerCase(line), kw)

\* extractSummary: the three lines after the first keyword line, else the
\* second to fourth line of the text
extractSummary(s) ==
    LET lines == SplitLines(s)
        i == FirstIdx([k \in 1..Len(lines) |-> HasKeyword(lines[k],
            SummaryKeywords)])
    IN  IF i # 0 THEN Trim(JoinSpace(Slice(lines, i, i + 3)))
        ELSE Trim(JoinSpace(Slice(lines, 1, 4)))

GoalKeywords ==
    {<<"s", "e", "e", "k", "i", "n", "g">>, <<"l", "o", "o", "k", "i", "n",
       "g", " ", "f", "o", "r">>, <<"i", "n", "t", "e", "r", "e", "s", "t",
       "e", "d", " ", "i", "n">>, <<"g", "o", "a", "l">>, <<"o", "b", "j",
       "e", "c", "t", "i", "v", "e">>}

DefaultCareerGoals == <<"S", "e", "e", "k", "i", "n", "g", " ", "n", "e", "w",
            " ", "o", "p", "p", "o", "r", "t", "u", "n", "i", "t", "i", "e",
            "s">>

\* extractCareerGoals: the first keyword line, trimmed
extractCareerGoals(s) ==
    LET lines == SplitLines(s)
        i == FirstIdx([k \in 1..Len(lines) |-> HasKeyword(lines[k],
            GoalKeywords)])
    IN  IF i # 0 THEN Trim(lines[i]) ELSE DefaultCareerGoals

\* /\b(19|20)\d{2}\b/ matches at position i of the line
YearTokenAt(s, i) ==
    /\ i + 3 <= Len(s)
    /\ <<s[i], s[i + 1]>> \in {<<"1", "9">>, <<"2", "0">>}
    /\ DigitsAt(s, i + 2, 2)
    /\ WordBoundary(s, i)
    /\ WordBoundary(s, i + 4)

\* line.match(yearRegex) with the g flag: every year token, left to right
\* (the empty list stands for null)
YearTokens(s) ==
    SelectIdx([i \in 1..Len(s) |-> SubSeq(s, i, Min(i + 3, Len(s)))],
              [i \in 1..Len(s) |-> YearTokenAt(s, i)], 1)

DigitValue(c) ==
    CASE c = "0" -> 0 [] c = "1" -> 1 [] c = "2" -> 2 [] c = "3" -> 3
      [] c = "4" -> 4 [] c = "5" -> 5 [] c = "6" -> 6 [] c = "7" -> 7
      [] c = "8" -> 8 [] c = "9" -> 9

\* parseInt on a string of digits
RECURSIVE ParseInt(_)
ParseInt(digits) ==
    IF digits = <<>> THEN 0
    ELSE 10 * ParseInt(SubSeq(digits, 1, Len(digits) - 1))
             + DigitValue(digits[Len(digits)])

\* calculateMonths
calculateMonths(start, end) == (ParseInt(end) - ParseInt(start)) * 12

\* line.split(/\d{4}/)[0] : the text before the first four digits in a row
BeforeFourDigits(line) ==
    LET i == FirstIdx([k \in 1..Len(line) |-> DigitsAt(line, k, 4)])
    IN  IF i = 0 THEN line ELSE SubSeq(line, 1, i - 1)

\* lines[i + 1]?.trim() for the 1-based line i: undefined after the last line
NextLineTrim_NoOptionalChain(lines, i) ==
    IF i + 1 <= Len(lines) THEN Str(Trim(lines[i + 1])) ELSE Threw
NextLineTrim(lines, i) ==
    IF i + 1 <= Len(lines) THEN Str(Trim(lines[i + 1])) ELSE Undef

\* x || fallback for the outcome x of an expression
OrElse(x, fallback) == IF Truthy(x) THEN x ELSE Str(fallback)

PositionTitle == <<"P", "o", "s", "i", "t", "i", "o", "n">>
CompanyName == <<"C", "o", "m", "p", "a", "n", "y">>
UniversityName == <<"U", "n", "i", "v", "e", "r", "s", "i", "t", "y">>

\* the entry extractExperience pushes for the 1-based line i
ExperienceEntry(lines, i) ==
    LET years == YearTokens(lines[i])
    IN  [job_title |-> OrElse(Str(Trim(BeforeFourDigits(lines[i]))),
        PositionTitle),
         company |-> Str(CompanyName),
         location |-> Null,
         start_date |-> Str(years[1]),
         end_date |-> Str(years[Len(years)]),
         duration_months |-> calculateMonths(years[1], years[Len(years)]),
         description |-> OrElse(NextLineTrim(lines, i), <<>>)]

\* the limits of lines 235 and 262
ExperienceLimit == 5
EducationLimit == 3

\* Array.prototype.slice(-n), the last n entries
KeepFirst_KeepLast(entries, n) ==
    SubSeq(entries, Max(Len(entries) - n, 0) + 1, Len(entries))
\* the return statements of lines 235 and 262: entries.slice(0, n)
KeepFirst(entries, n) == Slice0(entries, n)

\* the lines extractExperience qualifies: those with a year token
ExperienceLines(lines) == [i \in 1..Len(lines) |-> YearTokens(lines[i]) # <<>>]

\* extractExperience
extractExperience(s) ==
    LET lines == SplitLines(s)
        keep == ExperienceLines(lines)
    IN  IF \E i \in 1..Len(lines) : keep[i] /\ NextLineTrim(lines,
        i).t = "throw"
        THEN [threw |-> TRUE, val |-> <<>>]
        ELSE [threw |-> FALSE,
              val |-> KeepFirst(SelectIdx([i \in 1..Len(lines) |->
                                              IF keep[i] THEN ExperienceEntry(lines, i)
                                              ELSE Null],
                                          keep, 1),
                                ExperienceLimit)]

DegreeKeywords ==
    {<<"b", "a", "c", "h", "e", "l", "o", "r">>, <<"m", "a", "s", "t", "e",
       "r">>, <<"p", "h", "d">>, <<"m", "b", "a">>, <<"b", ".", "s", ".">>,
       <<"m", ".", "s", ".">>, <<"b", ".", "a", ".">>, <<"m", ".", "a", ".">>}

\* the entry extractEducation pushes for the 1-based line i
EducationEntry(lines, i) ==
    LET years == YearTokens(lines[i])
    IN  [degree |-> Str(Trim(lines[i])),
         institution |-> OrElse(NextLineTrim(lines, i), UniversityName),
         graduation_year |-> IF years # <<>> THEN Num(ParseInt(years[1])) ELSE Null]

\* the lines extractEducation qualifies: those with a degree keyword
EducationLines(lines) ==
    [i \in 1..Len(lines) |-> HasKeyword(lines[i], DegreeKeywords)]

\* extractEducation
extractEducation(s) ==
    LET lines == SplitLines(s)
        keep == EducationLines(lines)
    IN  IF \E i \in 1..Len(lines) : keep[i] /\ NextLineTrim(lines,
        i).t = "throw"
        THEN [threw |-> TRUE, val |-> <<>>]
        ELSE [threw |-> FALSE,
              val |-> KeepFirst(SelectIdx([i \in 1..Len(lines) |->
                                              IF keep[i] THEN EducationEntry(lines, i)
                                              ELSE Null],
                                          keep, 1),
                                EducationLimit)]

\* lines 64-73 of parseCV: the profile built from the text by the eight
\* extractors; an exception of an extractor leaves the block
extractFieldsFrom(state, s) ==
    LET experience == extractExperience(s)
        education == extractEducation(s)
    IN  IF experience.threw \/ education.threw
        THEN [threw |-> TRUE, val |-> <<>>]
        ELSE [threw |-> FALSE,
              val |-> [t |-> "object",
                       personal |-> extractContactInfo(s),
                       summary |-> Str(extractSummary(s)),
                       skills |-> Arr(extractSkillsFrom(state, s)),
                       experience |-> Arr(experience.val),
                       education |-> Arr(education.val),
                       industries |-> Arr(extractIndustries(s)),
                       career_goals |-> Str(extractCareerGoals(s)),
                       accuracy_score |-> calculateAccuracyScore(s)]]

extractFields(s) == extractFieldsFrom(DeclaredModuleState, s)

\* The score as the Number it is.  A Number is an IEEE-754 double: here a
\* record [e, m] that stands for 1.m[2]m[3]...m[53] (binary) times 2^e; m is
\* the significand, a sequence of DoublePrecision bits, first bit first.  The
\* operations round to nearest, ties to even.
DoublePrecision == 53

RECURSIVE Pow2(_)
Pow2(k) == IF k = 0 THEN 1 ELSE 2 * Pow2(k - 1)

Zeros(k) == [i \in 1..k |-> 0]

DoubleZero == [e |-> -1075, m |-> Zeros(DoublePrecision)]

\* the sum of two bit sequences of length n and a carry into the last place:
\* n + 1 bits.  The carry out of place i is decided by the nearest place
\* behind it where the two bits are equal: both set, a carry; both clear,
\* none; and by the carry in when there is no such place.  (Here and below a
\* singleton set binds an operand to its value, which is then computed once.)
BitsAdd(a, b, n, carry) ==
    CHOOSE sum \in
        { LET CarryOut(i) ==
                  LET decided == {j \in (i + 1)..n : x[j] + y[j] # 1}
                  IN  IF decided = {} THEN carry
                      ELSE (x[SetMin(decided)] + y[SetMin(decided)]) \div 2
          IN  [i \in 1..(n + 1) |->
                  IF i = 1 THEN CarryOut(0)
                  ELSE (x[i - 1] + y[i - 1] + CarryOut(i - 1)) % 2] :
            x \in {a}, y \in {b} } : TRUE

\* the double with the significand m at exponent e, moved up by one unit in
\* the last place when up
DoubleRounded(e, m, up) ==
    CHOOSE r \in
        { IF sum[1] = 1 THEN [e |-> e + 1, m |-> SubSeq(sum, 1, DoublePrecision)]
          ELSE [e |-> e, m |-> SubSeq(sum, 2, DoublePrecision + 1)] :
            sum \in {BitsAdd(m, Zeros(DoublePrecision), DoublePrecision,
                             IF up THEN 1 ELSE 0)} } : TRUE

\* 2^k modulo d, for k up to 53, within 32-bit integers
Pow2Mod(k, d) ==
    IF k <= 26 THEN Pow2(k) % d
    ELSE ((Pow2(26) % d) * (Pow2(k - 26) % d)) % d

\* the first k bits of r / d, for d <= r < 2 * d: long division, whose
\* remainder after i bits is r * 2^(i - 1) modulo d; and twice the remainder
\* after k bits
DivBits(r, d, k) ==
    [i \in 1..k |-> IF i = 1 THEN r \div d
                    ELSE (2 * ((r * Pow2Mod(i - 2, d)) % d)) \div d]

DivRest(r, d, k) == 2 * ((r * Pow2Mod(k - 1, d)) % d)

\* n / d of two small non-negative integers, d > 0
DoubleDiv(n, d) ==
    IF n = 0 THEN DoubleZero
    ELSE LET e == CHOOSE x \in -8..8 :
                    IF x >= 0 THEN Pow2(x) * d <= n /\ n < Pow2(x + 1) * d
                    ELSE d <= Pow2(-x) * n /\ Pow2(-x) * n < 2 * d
             r == IF e >= 0 THEN n ELSE Pow2(-e) * n
             den == IF e >= 0 THEN Pow2(e) * d ELSE d
             m == DivBits(r, den, DoublePrecision)
             rest == DivRest(r, den, DoublePrecision)
         IN  DoubleRounded(e, m,
             rest > den \/ (rest = den /\ m[DoublePrecision] = 1))

\* a + b of two non-negative doubles: the exact sum of the significands, the
\* smaller operand shifted right, then rounded to DoublePrecision bits
DoubleAdd(a, b) ==
    IF a = DoubleZero THEN b
    ELSE IF b = DoubleZero THEN a
    ELSE CHOOSE r \in
            { LET k == hi.e - lo.e
                  sum == BitsAdd(hi.m \o Zeros(k), Zeros(k) \o lo.m, DoublePrecision + k, 0)
              IN  CHOOSE q \in
                      { DoubleRounded(
                            IF sum[1] = 1 THEN hi.e + 1 ELSE hi.e,
                            SubSeq(exact, 1, DoublePrecision),
                            /\ Len(exact) > DoublePrecision
                            /\ exact[DoublePrecision + 1] = 1
                            /\ \/ exact[DoublePrecision] = 1
                               \/ \E i \in (DoublePrecision + 2)..Len(exact) :
                                     exact[i] = 1) :
                          exact \in {IF sum[1] = 1 THEN sum ELSE Tail(sum)} } : TRUE :
                hi \in {IF a.e >= b.e THEN a ELSE b},
                lo \in {IF a.e >= b.e THEN b ELSE a} } : TRUE

\* a < b for two non-negative doubles
DoubleLess(a, b) ==
    \/ a.e < b.e
    \/ /\ a.e = b.e
       /\ \E i \in 1..DoublePrecision :
             a.m[i] < b.m[i] /\ \A j \in 1..(i - 1) : a.m[j] = b.m[j]

\* Math.min
DoubleMin(a, b) == IF DoubleLess(b, a) THEN b ELSE a

\* lines 316-317 for n true checks of five, without Math.min
AccuracyDouble_NoCap(n) == DoubleAdd(DoubleDiv(n, 5), DoubleDiv(1, 5))

\* lines 316-317 for n true checks: Math.min(n / 5 + 0.2, 1.0); the literals
\* 0.2 and 1.0 are the doubles nearest to 1/5 and to 1
AccuracyDouble(n) ==
    DoubleMin(DoubleAdd(DoubleDiv(n, 5), DoubleDiv(1, 5)), DoubleDiv(1, 1))

\* calculateAccuracyScore, as the Number it returns
calculateAccuracyScoreDouble(s) == AccuracyDouble(Count(AccuracyChecks(s)))

(***************************************************************************)
(* Parser service: parseCV and the text decoders                           *)
(* (src/src/services/parser.js, 36-126; src/src/utils/constants.js, 10-14).*)
(*                                                                         *)
(* A file is a record: its MIME type, name and size, whether its bytes can *)
(* be read and opened by the decoder, and its decodable units: the pages   *)
(* of a PDF, the one stream of a DOCX, the one text of a plain text file.  *)
(* A unit is its text, or Threw when decoding it fails.                    *)
(***************************************************************************)
ALLOWED_FILE_TYPES ==
    [PDF |-> "application/pdf",
     DOCX |-> "application/vnd.openxmlformats-officedocument.wordprocessingml.document",
     TXT |-> "text/plain"]

\* an Error object with its message
Error(msg) == [t |-> "error", message |-> msg]

\* fullText += pageText + '\n' over the pages
RECURSIVE PagesText(_)
PagesText(pages) ==
    IF pages = <<>> THEN <<>>
    ELSE Head(pages).v \o <<"\n">> \o PagesText(Tail(pages))

\* a decoder that steps over a page it cannot read
extractTextFromPDF_SkipsFailedPages(f) ==
    IF ~f.opens
    THEN [text |-> <<>>, error |-> Error("PDF extraction failed")]
    ELSE [text |-> PagesText(SelectIdx(f.units,
                                       [i \in 1..Len(f.units) |-> f.units[i].t # "throw"],
                                       1)),
          error |-> Null]
\* extractTextFromPDF: any failure, on opening or on a page, is caught and
\* returned as the error, with the empty text
extractTextFromPDF(f) ==
    IF ~f.opens \/ \E i \in 1..Len(f.units) : f.units[i].t = "throw"
    THEN [text |-> <<>>, error |-> Error("PDF extraction failed")]
    ELSE [text |-> PagesText(f.units), error |-> Null]

\* extractTextFromDOCX
extractTextFromDOCX(f) ==
    IF ~f.opens \/ f.units[1].t = "throw"
    THEN [text |-> <<>>, error |-> Error("DOCX extraction failed")]
    ELSE [text |-> f.units[1].v, error |-> Null]

\* the branch of lines 40-62 a type takes
DecoderOf_DefaultsToText(type) ==
    CASE type = ALLOWED_FILE_TYPES.PDF -> "pdf"
      [] type = ALLOWED_FILE_TYPES.DOCX -> "docx"
      [] OTHER -> "txt"
DecoderOf(type) ==
    CASE type = ALLOWED_FILE_TYPES.PDF -> "pdf"
      [] type = ALLOWED_FILE_TYPES.DOCX -> "docx"
      [] type = ALLOWED_FILE_TYPES.TXT -> "txt"
      [] OTHER -> "none"

\* what parseCV returns, with the calls it made on the way (steps)
ParseFailure(err, steps) ==
    [extractedData |-> Null, accuracyScore |-> 0, error |-> err,
        steps |-> steps]

\* lines 63-86 of parseCV on the decoded text
ParseTextFrom(state, s, steps) ==
    LET fields == extractFieldsFrom(state, s)
    IN  IF fields.threw
        THEN ParseFailure(Error("Parsing failed"), steps \o <<"extract">>)
        ELSE [extractedData |-> fields.val,
              accuracyScore |-> fields.val.accuracy_score,
              error |-> Null,
              steps |-> steps \o <<"extract">>]

ParseText(s, steps) == ParseTextFrom(DeclaredModuleState, s, steps)

\* lines 40-61 of parseCV: the awaited decoding of the file, its text or the
\* error parseCV returns
DecodeFile(f) ==
    LET decoder == DecoderOf(f.type)
    IN  CASE decoder = "pdf" ->
               [extractTextFromPDF(f) EXCEPT !.text = Str(@)]
                   @@ [steps |-> <<"extractTextFromPDF">>]
          [] decoder = "docx" ->
               [extractTextFromDOCX(f) EXCEPT !.text = Str(@)]
                   @@ [steps |-> <<"extractTextFromDOCX">>]
          [] decoder = "txt" ->
               IF ~f.opens \/ f.units[1].t = "throw"
               THEN [text |-> Str(<<>>), error |-> Error("Parsing failed"),
                     steps |-> <<"text">>]
               ELSE [text |-> f.units[1], error |-> Null, steps |-> <<"text">>]
          [] OTHER ->
               [text |-> Str(<<>>), error |-> Error("Unsupported file type"),
                steps |-> <<>>]

\* parseCV
parseCV(f) ==
    LET decoded == DecodeFile(f)
    IN  IF decoded.error.t = "error"
        THEN ParseFailure(decoded.error, decoded.steps)
        ELSE ParseText(decoded.text.v, decoded.steps)

(***************************************************************************)
(* The upload flow: validateCVFile, uploadCV, createCVMetadata,            *)
(* updateCVMetadata and handleFileUpload (src/unnamed/part_006, 19-42;     *)
(* src/unnamed/part_004, 16-56; src/src/services/database.js, 18-59;       *)
(* src/src/pages/upload.js, 79-160; src/unnamed/part_001, 47-62).          *)
(***************************************************************************)
MAX_CV_SIZE_BYTES == 5 * 1024 * 1024

ALLOWED_FILE_EXTENSIONS == {<<".", "p", "d", "f">>, <<".", "d", "o", "c",
            "x">>, <<".", "t", "x", "t">>}

PARSING_STATUS ==
    [PENDING |-> "pending", PROCESSING |-> "processing",
     COMPLETED |-> "completed", FAILED |-> "failed"]

\* `.${file.name.split('.').pop().toLowerCase()}`
FileExtension(name) ==
    LET dots == {i \in 1..Len(name) : name[i] = "."}
        last == IF dots = {} THEN name ELSE SubSeq(name, SetMax(dots) + 1,
            Len(name))
    IN  <<".">> \o ToLowerCase(last)

\* validateCVFile
validateCVFile(f) ==
    IF IsNullish(f) THEN [valid |-> FALSE, error |-> "No file provided"]
    ELSE IF f.size > MAX_CV_SIZE_BYTES
         THEN [valid |-> FALSE, error |-> "FILE_TOO_LARGE"]
    ELSE IF f.type \notin {ALLOWED_FILE_TYPES.PDF, ALLOWED_FILE_TYPES.DOCX,
                           ALLOWED_FILE_TYPES.TXT}
         THEN [valid |-> FALSE, error |-> "INVALID_FILE_TYPE"]
    ELSE IF FileExtension(f.name) \notin ALLOWED_FILE_EXTENSIONS
         THEN [valid |-> FALSE, error |-> "INVALID_FILE_TYPE"]
    ELSE [valid |-> TRUE, error |-> "none"]

\* the row createCVMetadata inserts: parsing_status, parsing_error and
\* extracted_data take the defaults of the table
InsertedRow(f) ==
    [t |-> "row", original_filename |-> f.name, file_size_bytes |-> f.size,
     file_type |-> f.type, parsing_status |-> PARSING_STATUS.PENDING,
     parsing_error |-> Null, extracted_data |-> Null]

\* the row after updateCVMetadata when the update reaches the table
FailedRow(row, err) ==
    [row EXCEPT !.parsing_status = PARSING_STATUS.FAILED,
                !.parsing_error = Str(err.message)]

CompletedRow(row, extractedData) ==
    [row EXCEPT !.parsing_status = PARSING_STATUS.COMPLETED,
                !.extracted_data = extractedData]

\* what the page shows at the end of handleFileUpload
SuccessMessage == [kind |-> "success",
    text |-> "CV uploaded and analyzed successfully!"]
FailureMessage(msg) == [kind |-> "error", text |-> msg]

(***************************************************************************)
(* The application shell: authentication state and the hash router         *)
(* (src/unnamed/part_005, 129-301).                                        *)
(***************************************************************************)
\* the session user a sign-in delivers
SessionUser == [t |-> "object", v |-> <<>>]

\* the main-content container before any page is rendered
NoContent == [page |-> "none", loading |-> FALSE]

\* a page's markup, and the spinner showLoading puts up for it
PageContent(p) == [page |-> p, loading |-> FALSE]
LoadingContent(p) == [page |-> p, loading |-> TRUE]

StartsWith(s, prefix) ==
    /\ Len(prefix) <= Len(s)
    /\ SubSeq(s, 1, Len(prefix)) = prefix

DashboardRoute == <<"/", "d", "a", "s", "h", "b", "o", "a", "r", "d">>
UploadRoute == <<"/", "u", "p", "l", "o", "a", "d">>
CompaniesRoute == <<"/", "c", "o", "m", "p", "a", "n", "i", "e", "s">>
ProfilesRoute == <<"/", "p", "r", "o", "f", "i", "l", "e", "s">>
RootRoute == <<"/">>
LoginRoute == <<"/", "l", "o", "g", "i", "n">>

protectedRoutes == <<DashboardRoute, UploadRoute, CompaniesRoute,
            ProfilesRoute>>

isProtected(route) ==
    \E i \in 1..Len(protectedRoutes) : StartsWith(route, protectedRoutes[i])

\* window.location.hash.slice(1) || '/'
CurrentRoute(h) == IF h = <<>> \/ Tail(h) = <<>> THEN RootRoute ELSE Tail(h)

\* navigateTo(path): window.location.hash = `#${path}`
HashOf(path) == <<"#">> \o path

\* the pages whose render functions are async and write after an await
AsyncPages == {"dashboard", "companies", "profiles"}

\* the pages of the protected routes
ProtectedPages == AsyncPages \cup {"upload"}

PageOfRoute(route) ==
    IF route = DashboardRoute THEN "dashboard"
    ELSE IF route = UploadRoute THEN "upload"
    ELSE IF route = CompaniesRoute THEN "companies"
    ELSE IF route = ProfilesRoute THEN "profiles"
    ELSE "404"

\* the hashes a link, the address bar or the history can set
Hashes ==
    { <<>>, HashOf(RootRoute), HashOf(LoginRoute), HashOf(DashboardRoute),
      HashOf(UploadRoute), HashOf(CompaniesRoute), HashOf(ProfilesRoute),
      HashOf(<<"/", "d", "a", "s", "h", "b", "o", "a", "r", "d", "/", "s",
            "e", "t", "t", "i", "n", "g", "s">>), HashOf(<<"/", "a", "b", "o",
            "u", "t">>) }

\* the browser queues at most this many hashchange events in the model
MaxHashChanges == 2

(***************************************************************************)
(* The inputs the behaviours draw from.                                    *)
(***************************************************************************)
Python == <<"P", "y", "t", "h", "o", "n">>
PythonLower == <<"p", "y", "t", "h", "o", "n">>
AWS == <<"A", "W", "S">>
Kubernetes == <<"K", "u", "b", "e", "r", "n", "e", "t", "e", "s">>
Docker == <<"D", "o", "c", "k", "e", "r">>
Technology == <<"T", "e", "c", "h", "n", "o", "l", "o", "g", "y">>
Finance == <<"F", "i", "n", "a", "n", "c", "e">>
TechCorp == <<"T", "e", "c", "h", "C", "o", "r", "p">>
FinBank == <<"F", "i", "n", "a", "n", "c", "e", " ", "B", "a", "n", "k">>
UsesPythonAndAWS ==
    <<"u", "s", "e", "s", " ", "P", "y", "t", "h", "o", "n", " ", "a", "n", "d", " ", "A", "W", "S">>
CloudOps ==
    <<"k", "u", "b", "e", "r", "n", "e", "t", "e", "s", " ", "o", "p", "s">>
SF == <<"S", "F">>
SFBay == <<"S", "F", " ", "B", "a", "y">>
NYC == <<"N", "Y", "C">>
\* two more buckets of COMPANY_SIZES (src/src/utils/constants.js, 76-85)
Size501 == <<"5", "0", "1", "-", "1", "0", "0", "0">>
Size11 == <<"1", "1", "-", "5", "0">>
JaneSmith == <<"J", "a", "n", "e", " ", "S", "m", "i", "t", "h">>
SeniorEngineer ==
    <<"S", "e", "n", "i", "o", "r", " ", "E", "n", "g", "i", "n", "e", "e", "r">>
Engineer == <<"E", "n", "g", "i", "n", "e", "e", "r">>
TechnologyLead ==
    <<"T", "e", "c", "h", "n", "o", "l", "o", "g", "y", " ", "e", "n", "t", "h", "u", "s", "i", "a", "s", "t">>

Skill(name) == [name |-> Str(name), category |-> "technical"]

SkillPool == <<Skill(Python), Skill(AWS), Skill(Kubernetes), Skill(PythonLower)>>

\* the ordered selections of at most MaxSkills entries of the pool
SkillLists ==
    { SelectIdx(SkillPool, m, 1) :
        m \in { k \in [1..Len(SkillPool) -> BOOLEAN] : Count(k) <= MaxSkills } }

Personal(location) == [t |-> "object", location |-> location]

CvObject(skills, industries, experience, personal) ==
    [t |-> "object", skills |-> skills, industries |-> industries,
     experience |-> experience, personal |-> personal]

Experience(n) == Arr([i \in 1..n |-> i])

\* the profiles: populated ones, with and without a contact location, and
\* ones whose experience and contact block are missing; a profile object with
\* every field missing is the empty object {}
ProfileSkills == {Undef} \cup { Arr(l) : l \in SkillLists }
ProfileIndustries == {Undef, Arr(<<Technology>>), Arr(<<Finance, Technology>>)}

Profiles ==
    { CvObject(sk, ind, ex, per) :
        sk \in ProfileSkills, ind \in ProfileIndustries,
        ex \in {Experience(SeniorExperience - 1), Experience(SeniorExperience)},
        per \in {Personal(Null), Personal(Str(SF))} }
    \cup { CvObject(sk, ind, Undef, Undef) : sk \in ProfileSkills, ind \in ProfileIndustries }

EmptyProfile == CvObject(Undef, Undef, Undef, Undef)

Company(name, industry, size, location, description) ==
    [name |-> name, industry |-> industry, size |-> size,
     location |-> location, description |-> description]

\* every combination of present and null fields, and of present and missing ones
CompaniesWith(absent) ==
    { Company(n, i, z, l, d) :
        n \in {absent, Str(TechCorp)}, i \in {absent, Str(Technology)},
        z \in {absent, Str(Size51), Str(Size501)}, l \in {absent, Str(SFBay)},
        d \in {absent, Str(UsesPythonAndAWS)} }

CompanyPool ==
    { Company(Str(TechCorp), Str(Technology), Str(Size51), Str(SF),
              Str(UsesPythonAndAWS)),
      Company(Str(FinBank), Str(Finance), Str(Size201), Str(NYC), Str(CloudOps)),
      Company(Str(TechCorp), Null, Str(Size11), Null, Null) }

Person(name, role, company, location, headline, skills) ==
    [name |-> name, current_role |-> role, current_company |-> company,
     location |-> location, headline |-> headline, skills |-> skills]

PeopleWith(absent) ==
    { Person(n, r, c, l, h, s) :
        n \in {absent, Str(JaneSmith)},
        r \in {absent, Str(SeniorEngineer), Str(Engineer)},
        c \in {absent, Str(FinBank)}, l \in {absent, Str(SFBay)},
        h \in {absent, Str(TechnologyLead)},
        s \in {absent, Arr(<<Kubernetes, Docker>>)} }

PersonPool ==
    { Person(Str(JaneSmith), Str(SeniorEngineer), Str(TechCorp), Str(SF),
             Str(TechnologyLead), Arr(<<Kubernetes, Docker>>)),
      Person(Str(JaneSmith), Str(Engineer), Str(FinBank), Str(NYC), Null,
             Arr(<<PythonLower, AWS>>)),
      Person(Null, Null, Null, Null, Null, Arr(<<>>)) }

\* the lists of 2 .. MaxCandidates candidates of a pool
ListsOver(pool) ==
    UNION { [1..n -> pool] : n \in 2..MaxCandidates }

\* a candidate list is null, undefined, empty, a single candidate with any
\* combination of absent fields, or a longer list over the pool
CandidateLists(singles, pool) ==
    {Null, Undef, Arr(<<>>)}
        \cup { Arr(<<c>>) : c \in singles }
        \cup { Arr(l) : l \in ListsOver(pool) }

CompanyLists ==
    CandidateLists(CompaniesWith(Null) \cup CompaniesWith(Undef) \cup CompanyPool,
                   CompanyPool)
PersonLists ==
    CandidateLists(PeopleWith(Null) \cup PeopleWith(Undef) \cup PersonPool, PersonPool)

FragName == <<"J", "a", "n", "e", " ", "D", "o", "e", "\n">>
FragEmail == <<"j", "d", "@", "x", ".", "i", "o", "\n">>
FragPhone ==
    <<"5", "5", "5", "-", "1", "2", "3", "-", "4", "5", "6", "7", "\n">>
FragLinkedIn ==
    <<"L", "i", "n", "k", "e", "d", "I", "n", ".", "c", "o", "m", "/", "i", "n", "/", "j", "d", "\n">>
FragYears ==
    <<"D", "e", "v", " ", "2", "0", "1", "9", " ", "2", "0", "2", "1", "\n">>
FragMaster ==
    <<"M", "a", "s", "t", "e", "r", " ", "o", "f", " ", "A", "r", "t", "s", "\n">>
FragPhd == <<"P", "h", "D", "\n">>
FragMba == <<"M", "B", "A", "\n">>

Fragments ==
    <<FragName, FragEmail, FragPhone, FragLinkedIn, FragYears, FragMaster, FragPhd,
      FragMba>>

RECURSIVE Concat(_)
Concat(ss) == IF ss = <<>> THEN <<>> ELSE Head(ss) \o Concat(Tail(ss))

\* the text blobs: any selection of the fragments, in document order
Texts == { Concat(SelectIdx(Fragments, m, 1)) : m \in [1..Len(Fragments) -> BOOLEAN] }

\* the lines the CV texts are assembled from: a header (name, contact
\* line, section title, a line naming skills, an industry and a goal), lines
\* with year tokens in several orders and one without a token, degree lines
HeaderLines ==
    <<<<"J", "a", "n", "e", " ", "D", "o", "e">>,
      <<"j", "d", "@", "x", ".", "i", "o", " ", "+", "1", " ", "(", "5", "5",
        "5", ")", " ", "1", "2", "3", "-", "4", "5", "6", "7", " ", "L", "i",
        "n", "k", "e", "d", "I", "n", ".", "c", "o", "m", "/", "i", "n", "/",
        "j", "d", "-", "1">>,
      <<"P", "r", "o", "f", "i", "l", "e">>,
      <<"S", "e", "e", "k", "i", "n", "g", " ", "P", "y", "t", "h", "o", "n",
        " ", "a", "n", "d", " ", "A", "W", "S", " ", "l", "e", "a", "d", "e",
        "r", "s", "h", "i", "p", " ", "i", "n", " ", "f", "i", "n", "t", "e",
        "c", "h">>>>

YearLinePool ==
    <<<<"D", "e", "v", " ", "2", "0", "1", "9", " ", "2", "0", "2", "1">>,
      <<"Q", "A", " ", "2", "0", "2", "1", " ", "2", "0", "1", "9">>,
      <<"R", "e", "f", " ", "1", "2", "0", "1", "9", " ", "x", "2", "0", "2",
        "0">>,
      <<"L", "e", "a", "d", " ", "1", "9", "9", "9", " ", "2", "0", "2", "4",
        " ", "2", "0", "0", "1">>,
      <<"2", "0", "1", "5">>,
      <<"O", "p", "s", " ", "2", "0", "1", "0", "-", "2", "0", "1", "2">>>>

DegreeLinePool ==
    <<<<"M", "a", "s", "t", "e", "r", " ", "o", "f", " ", "A", "r", "t", "s">>,
      <<"P", "h", "D", " ", "2", "0", "1", "2">>,
      <<"M", "B", "A">>,
      <<"B", ".", "S", ".", " ", "P", "h", "y", "s", "i", "c", "s", " ", "2",
        "0", "0", "5">>>>

MaxYearLines == 7
\* the positions of the pool the year lines of a text start after
YearLineStarts == {0, 3}
MaxDegreeLines == 4

\* n lines of the pool, taken in turn from the one after position off
CycleLines(pool, off,
    n) == [k \in 1..n |-> pool[((off + k - 1) % Len(pool)) + 1]]

\* Array.prototype.join('\n')
RECURSIVE JoinLines(_)
JoinLines(ls) ==
    IF ls = <<>> THEN <<>>
    ELSE IF Len(ls) = 1 THEN ls[1]
    ELSE ls[1] \o <<"\n">> \o JoinLines(Tail(ls))

\* the CV texts: a selection of the header lines, then year lines, then
\* degree lines; the empty text is one of them
Resumes ==
    { JoinLines(SelectIdx(HeaderLines, m, 1)
                \o CycleLines(YearLinePool, off, ny)
                \o CycleLines(DegreeLinePool, 0, nd)) :
        m \in [1..Len(HeaderLines) -> BOOLEAN],
        off \in YearLineStarts,
        ny \in 0..MaxYearLines,
        nd \in 0..MaxDegreeLines }

\* the files: name, size in bytes, type, and what decoding them gives
File(name, size, type, opens, units) ==
    [t |-> "file", name |-> name, size |-> size, type |-> type,
     opens |-> opens, units |-> units]

MaxPages == 3

PageContact == <<"J", "a", "n", "e", " ", "D", "o", "e", " ", "j", "d", "@",
            "x", ".", "i", "o">>
PageYears == <<"Q", "A", " ", "2", "0", "2", "1", " ", "2", "0", "1", "9">>
PageSkills == <<"P", "h", "D", " ", "i", "n", " ", "P", "y", "t", "h", "o",
            "n", " ", "a", "n", "d", " ", "A", "W", "S", " ", "2", "0", "1",
            "2">>
PageTexts == {PageContact, PageYears, PageSkills}

\* the page lists of the PDF files: each page decodes to a text or fails
PageLists ==
    UNION { [1..n -> {Str(p) : p \in PageTexts} \cup {Threw}] : n \in 0..MaxPages }

\* the whole texts of the DOCX and plain text files
WholeTexts ==
    { JoinLines(SelectIdx(HeaderLines, m, 1) \o CycleLines(YearLinePool, 0,
        ny)) :
        m \in {[i \in 1..Len(HeaderLines) |-> FALSE],
            [i \in 1..Len(HeaderLines) |-> TRUE]},
        ny \in {0, 2} }

CvPdfName == <<"c", "v", ".", "p", "d", "f">>
CvDocxName == <<"c", "v", ".", "d", "o", "c", "x">>
CvTxtName == <<"c", "v", ".", "t", "x", "t">>
CvPngName == <<"c", "v", ".", "p", "n", "g">>

UnsupportedTypes == {"image/png", "application/msword", ""}

ParseFiles ==
    { File(CvPdfName, 2048, ALLOWED_FILE_TYPES.PDF, TRUE,
        pages) : pages \in PageLists }
    \cup { File(CvPdfName, 2048, ALLOWED_FILE_TYPES.PDF, FALSE, <<>>) }
    \cup { File(CvDocxName, 2048, ALLOWED_FILE_TYPES.DOCX, TRUE, <<u>>) :
              u \in {Str(w) : w \in WholeTexts} \cup {Threw} }
    \cup { File(CvDocxName, 2048, ALLOWED_FILE_TYPES.DOCX, FALSE,
            <<Threw>>) }
    \cup { File(CvTxtName, 2048, ALLOWED_FILE_TYPES.TXT, TRUE, <<u>>) :
              u \in {Str(w) : w \in WholeTexts} \cup {Threw} }
    \cup { File(CvPngName, 2048, type, TRUE, <<u>>) :
              type \in UnsupportedTypes, u \in {Str(w) : w \in WholeTexts} }

CvUpperName == <<"C", "V", ".", "P", "D", "F">>
CvBareName == <<"c", "v">>

\* the files handed to the upload page: readable and unreadable ones of the
\* three types, with and without skill words, and ones validation refuses
UploadFiles ==
    { File(CvTxtName, size, ALLOWED_FILE_TYPES.TXT, TRUE, <<Str(w)>>) :
         size \in {2048, MAX_CV_SIZE_BYTES, MAX_CV_SIZE_BYTES + 1},
             w \in WholeTexts }
    \cup { File(CvTxtName, 2048, ALLOWED_FILE_TYPES.TXT, TRUE, <<Threw>>) }
    \cup { File(name, 2048, ALLOWED_FILE_TYPES.PDF, TRUE, pages) :
              name \in {CvPdfName, CvUpperName, CvBareName, CvPngName},
              pages \in {p \in PageLists : Len(p) = 2 /\ p[1].t = "string"} }
    \cup { File(CvPdfName, 2048, ALLOWED_FILE_TYPES.PDF, FALSE, <<>>) }
    \cup { File(CvDocxName, 2048, ALLOWED_FILE_TYPES.DOCX, TRUE, <<u>>) :
              u \in {Str(w) : w \in WholeTexts} \cup {Threw} }
    \cup { File(CvPngName, 2048, "image/png", TRUE,
            <<Str(w)>>) : w \in WholeTexts }

\* the result variable before the call returns
NoResult == [threw |-> FALSE, val |-> <<>>]

\* the invocations that are interleaved: two of them, each a parseCV call on
\* a file or a ranking call on a candidate list and a profile
CallIds == {1, 2}

Call(kind, f, list, cv) ==
    [kind |-> kind, file |-> f, candidates |-> list, cvData |-> cv,
     at |-> "start", text |-> <<>>, steps |-> <<>>, result |-> NoResult,
     overlapped |-> FALSE]

\* a profile as the extractors build it
ExtractedProfile == extractFields(JoinLines(HeaderLines \o YearLinePool)).val

ConcurrentFiles ==
    { File(CvTxtName, 2048, ALLOWED_FILE_TYPES.TXT, TRUE, <<Str(w)>>) : w \in WholeTexts }
    \cup { File(CvPdfName, 2048, ALLOWED_FILE_TYPES.PDF, TRUE, <<Str(PageSkills), u>>) :
              u \in {Str(PageYears), Threw} }

\* the lists of two different candidates of a pool
PairsOver(pool) == { l \in [1..2 -> pool] : l[1] # l[2] }

CallInputs ==
    { Call("parseCV", f, Null, Null) : f \in ConcurrentFiles }
    \cup { Call("rankCompanies", Null, Arr(l), ExtractedProfile) : l \in PairsOver(CompanyPool) }
    \cup { Call("rankProfiles", Null, Arr(l), ExtractedProfile) : l \in PairsOver(PersonPool) }

\* the files whose profile is handed to the ranking: the files above and a
\* text file that names a city; the candidates ranked against it: those of the
\* pools and a company and a person in that city that match the profile of
\* the header lines in every other respect
CityFile ==
    File(CvTxtName, 2048, ALLOWED_FILE_TYPES.TXT, TRUE,
         <<Str(JoinLines(HeaderLines \o <<SF>>))>>)
PipelineFiles == ParseFiles \cup {CityFile}

FintechCompany ==
    Company(Str(<<"P", "a", "y", "C", "o">>), Str(<<"F", "i", "n", "t", "e",
            "c", "h">>), Str(Size51), Str(SF),
            Str(<<"P", "y", "t", "h", "o", "n", " ", "o", "n", " ", "A", "W",
            "S", ",", " ", "l", "e", "a", "d", "e", "r", "s", "h", "i", "p">>))
FintechPerson ==
    Person(Str(JaneSmith), Str(Engineer), Str(<<"P", "a", "y", "C", "o">>),
            Str(SF),
           Str(<<"F", "i", "n", "t", "e", "c", "h", " ", "e", "n", "g", "i",
            "n", "e", "e", "r">>), Arr(<<Python, AWS, <<"L", "e", "a", "d",
            "e", "r", "s", "h", "i", "p">>>>))

PipelineLists(pool, best) ==
    { Arr(<<c>>) : c \in pool \cup {best} }
        \cup { Arr(<<c, best>>) : c \in pool }

(***************************************************************************)
(* The behaviours: one call of an entry point on inputs chosen initially.  *)
(***************************************************************************)
\* the upload page shows nothing yet
NoMessage == [kind |-> "none", text |-> ""]

\* nothing is being uploaded
NoUpload == file = Null /\ stored = FALSE /\ record = Null /\ message = NoMessage

\* a single invocation runs: the module-level arrays are as declared
NoCalls == calls = <<>> /\ moduleState = DeclaredModuleState

\* the application shell is not loaded
NoRouter ==
    /\ hash = <<>>
    /\ currentUser = Null
    /\ mainContent = NoContent
    /\ navbar = "initial"
    /\ renders = {}
    /\ hashChanges = 0

Init ==
    /\ pc = "start"
    /\ op \in {"rankCompanies", "rankProfiles"}
    /\ candidates \in IF op = "rankCompanies" THEN CompanyLists ELSE PersonLists
    /\ cvData \in Profiles \cup {Null, Undef}
    /\ text = <<>>
    /\ result = NoResult
    /\ NoUpload
    /\ NoCalls
    /\ NoRouter

RankCompanies ==
    /\ pc = "start"
    /\ op = "rankCompanies"
    /\ result' = rankCompanies(candidates, cvData)
    /\ candidates' = ArgumentAfterRank(candidates, rankCompanies(candidates, cvData))
    /\ pc' = "done"
    /\ UNCHANGED <<op, cvData, text, uploadVars, callVars, routerVars>>

RankProfiles ==
    /\ pc = "start"
    /\ op = "rankProfiles"
    /\ result' = rankProfiles(candidates, cvData)
    /\ candidates' = ArgumentAfterRank(candidates, rankProfiles(candidates, cvData))
    /\ pc' = "done"
    /\ UNCHANGED <<op, cvData, text, uploadVars, callVars, routerVars>>

Next == RankCompanies \/ RankProfiles

Spec == Init /\ [][Next]_vars

InitExtract ==
    /\ pc = "start"
    /\ op \in {"calculateAccuracyScore", "extractFields"}
    /\ candidates = Null
    /\ cvData = Null
    /\ text \in IF op = "calculateAccuracyScore" THEN Texts ELSE Resumes \cup Texts
    /\ result = NoResult
    /\ NoUpload
    /\ NoCalls
    /\ NoRouter

CalculateAccuracyScore ==
    /\ pc = "start"
    /\ op = "calculateAccuracyScore"
    /\ result' = [threw |-> FALSE, val |-> calculateAccuracyScore(text),
                  double |-> calculateAccuracyScoreDouble(text)]
    /\ pc' = "done"
    /\ UNCHANGED <<op, candidates, cvData, text, uploadVars, callVars,
                   routerVars>>

ExtractFields ==
    /\ pc = "start"
    /\ op = "extractFields"
    /\ result' = extractFields(text)
    /\ pc' = "done"
    /\ UNCHANGED <<op, candidates, cvData, text, uploadVars, callVars,
                   routerVars>>

NextExtract == CalculateAccuracyScore \/ ExtractFields

SpecExtract == InitExtract /\ [][NextExtract]_vars

InitParse ==
    /\ pc = "start"
    /\ op = "parseCV"
    /\ candidates = Null
    /\ cvData = Null
    /\ text = <<>>
    /\ result = NoResult
    /\ file \in ParseFiles
    /\ stored = FALSE /\ record = Null /\ message = NoMessage
    /\ NoCalls
    /\ NoRouter

ParseCV ==
    /\ pc = "start"
    /\ op = "parseCV"
    /\ result' = [threw |-> FALSE, val |-> parseCV(file)]
    /\ pc' = "done"
    /\ UNCHANGED <<op, candidates, cvData, text, uploadVars, callVars,
                   routerVars>>

NextParse == ParseCV

SpecParse == InitParse /\ [][NextParse]_vars

\* the ranking pages: the profile parseCV extracted from the uploaded file is
\* stored as extracted_data, read back by the page and handed to the ranking
InitPipeline ==
    /\ pc = "parsing"
    /\ op \in {"rankCompanies", "rankProfiles"}
    /\ candidates \in IF op = "rankCompanies"
                      THEN PipelineLists(CompanyPool, FintechCompany)
                      ELSE PipelineLists(PersonPool, FintechPerson)
    /\ cvData = Null
    /\ text = <<>>
    /\ result = NoResult
    /\ file \in PipelineFiles
    /\ stored = FALSE /\ record = Null /\ message = NoMessage
    /\ NoCalls
    /\ NoRouter

UseExtractedData ==
    /\ pc = "parsing"
    /\ cvData' = parseCV(file).extractedData
    /\ pc' = "start"
    /\ UNCHANGED <<op, candidates, text, result, uploadVars, callVars,
                   routerVars>>

NextPipeline == UseExtractedData \/ RankCompanies \/ RankProfiles

SpecPipeline == InitPipeline /\ [][NextPipeline]_vars

\* handleFileUpload, one action for each call it awaits
InitUpload ==
    /\ pc = "start"
    /\ op = "handleFileUpload"
    /\ candidates = Null
    /\ cvData = Null
    /\ text = <<>>
    /\ result = NoResult
    /\ file \in UploadFiles
    /\ stored = FALSE /\ record = Null /\ message = NoMessage
    /\ NoCalls
    /\ NoRouter

\* step 1, uploadCV: the file is validated, then sent to the storage bucket,
\* which accepts or refuses it; an error is thrown to the catch block
UploadCV ==
    /\ pc = "start"
    /\ op = "handleFileUpload"
    /\ IF ~validateCVFile(file).valid
       THEN /\ message' = FailureMessage(validateCVFile(file).error)
            /\ pc' = "done"
            /\ UNCHANGED stored
       ELSE \E accepted \in BOOLEAN :
               IF accepted
               THEN stored' = TRUE /\ pc' = "uploaded" /\ UNCHANGED message
               ELSE /\ message' = FailureMessage("storage error")
                    /\ pc' = "done"
                    /\ UNCHANGED stored
    /\ UNCHANGED <<op, candidates, cvData, text, result, file, record,
            callVars, routerVars>>

\* step 2, createCVMetadata: the insert succeeds or returns an error
CreateCVMetadata ==
    /\ pc = "uploaded"
    /\ \E inserted \in BOOLEAN :
          IF inserted
          THEN record' = InsertedRow(file) /\ pc' = "created" /\ UNCHANGED message
          ELSE /\ message' = FailureMessage("insert error")
               /\ pc' = "done"
               /\ UNCHANGED record
    /\ UNCHANGED <<op, candidates, cvData, text, result, file, stored,
            callVars, routerVars>>

\* step 3, parseCV
ParseUploadedCV ==
    /\ pc = "created"
    /\ result' = [threw |-> FALSE, val |-> parseCV(file)]
    /\ pc' = "parsed"
    /\ UNCHANGED <<op, candidates, cvData, text, uploadVars, callVars,
                   routerVars>>

\* lines 117-124: the record is marked failed (the update reaches the table
\* or returns an error, which is not looked at) and the error is thrown to
\* the catch block
MarkFailed ==
    /\ pc = "parsed"
    /\ result.val.error.t = "error"
    /\ \E updated \in BOOLEAN :
          record' = IF updated THEN FailedRow(record,
              result.val.error) ELSE record
    /\ message' = FailureMessage(result.val.error.message)
    /\ pc' = "done"
    /\ UNCHANGED <<op, candidates, cvData, text, result, file, stored,
            callVars, routerVars>>

\* lines 129-146: step 4, the record is marked completed with the extracted
\* data, then the success message is shown
MarkCompleted ==
    /\ pc = "parsed"
    /\ result.val.error.t = "null"
    /\ \E updated \in BOOLEAN :
          record' = IF updated THEN CompletedRow(record,
              result.val.extractedData)
                    ELSE record
    /\ message' = SuccessMessage
    /\ pc' = "done"
    /\ UNCHANGED <<op, candidates, cvData, text, result, file, stored,
            callVars, routerVars>>

NextUpload ==
    UploadCV \/ CreateCVMetadata \/ ParseUploadedCV \/ MarkFailed \/ MarkCompleted

SpecUpload == InitUpload /\ [][NextUpload]_vars

\* two invocations whose steps interleave: parseCV is suspended while it
\* awaits the decoding of its file and resumes with the extraction; the
\* ranking functions run without a suspension point
InitConcurrent ==
    /\ pc = "start"
    /\ op = "interleaved"
    /\ candidates = Null
    /\ cvData = Null
    /\ text = <<>>
    /\ result = NoResult
    /\ NoUpload
    /\ calls \in [CallIds -> CallInputs]
    /\ moduleState = DeclaredModuleState
    /\ NoRouter

OtherSuspended(i) == \E j \in CallIds \ {i} : calls[j].at = "decoded"

\* lines 40-61 of parseCV for invocation i; the text is a local variable
DecodeCall(i) ==
    /\ calls[i].kind = "parseCV"
    /\ calls[i].at = "start"
    /\ LET decoded == DecodeFile(calls[i].file)
       IN  calls' = [calls EXCEPT ![i] =
                        IF decoded.error.t = "error"
                        THEN [@ EXCEPT !.at = "done",
                                       !.steps = decoded.steps,
                                       !.result = ParseFailure(decoded.error,
                                           decoded.steps),
                                       !.overlapped = OtherSuspended(i)]
                        ELSE [@ EXCEPT !.at = "decoded",
                                       !.text = decoded.text.v,
                                       !.steps = decoded.steps]]
    /\ UNCHANGED <<pc, op, candidates, cvData, text, result, uploadVars,
            moduleState, routerVars>>

\* lines 63-80 of parseCV for invocation i, reading the module-level arrays
ExtractCall(i) ==
    /\ calls[i].at = "decoded"
    /\ calls' = [calls EXCEPT ![i] =
                    [@ EXCEPT !.at = "done",
                              !.result = ParseTextFrom(moduleState,
                                  calls[i].text,
                                                       calls[i].steps),
                              !.overlapped = OtherSuspended(i)]]
    /\ moduleState' = ModuleStateAfterExtract(moduleState)
    /\ UNCHANGED <<pc, op, candidates, cvData, text, result, uploadVars,
                   routerVars>>

\* rankCompanies / rankProfiles for invocation i
RankCall(i) ==
    /\ calls[i].kind \in {"rankCompanies", "rankProfiles"}
    /\ calls[i].at = "start"
    /\ calls' = [calls EXCEPT ![i] =
                    [@ EXCEPT !.at = "done",
                              !.result =
                                  IF calls[i].kind = "rankCompanies"
                                  THEN rankCompanies(calls[i].candidates,
                                      calls[i].cvData)
                                  ELSE rankProfiles(calls[i].candidates,
                                      calls[i].cvData),
                              !.overlapped = OtherSuspended(i)]]
    /\ UNCHANGED <<pc, op, candidates, cvData, text, result, uploadVars,
            moduleState, routerVars>>

NextConcurrent ==
    \E i \in CallIds : DecodeCall(i) \/ ExtractCall(i) \/ RankCall(i)

SpecConcurrent == InitConcurrent /\ [][NextConcurrent]_vars

\* the application shell: the page is loaded with some hash; initApp has not
\* yet returned from its await of getCurrentUser
InitRouter ==
    /\ pc = "loading"
    /\ op = "router"
    /\ candidates = Null
    /\ cvData = Null
    /\ text = <<>>
    /\ result = NoResult
    /\ NoUpload
    /\ NoCalls
    /\ hash \in Hashes
    /\ currentUser = Null
    /\ mainContent = NoContent
    /\ navbar = "initial"
    /\ renders = {}
    /\ hashChanges = 0

\* window.location.hash = h: the browser queues a hashchange event when the
\* fragment changes
SetHash(h, pending) ==
    /\ hash' = h
    /\ hashChanges' = IF h = hash THEN pending ELSE pending + 1

\* navigateToCurrentHash with currentUser = user, pending events waiting
NavigateToCurrentHash(user, pending) ==
    LET route == CurrentRoute(hash)
        page == PageOfRoute(route)
    IN  IF isProtected(route) /\ ~Truthy(user)
        THEN SetHash(HashOf(RootRoute), pending)
             /\ UNCHANGED <<mainContent, renders>>
        ELSE IF route = RootRoute \/ route = LoginRoute
        THEN IF Truthy(user)
             THEN SetHash(HashOf(DashboardRoute), pending)
                  /\ UNCHANGED <<mainContent, renders>>
             ELSE /\ mainContent' = PageContent("login")
                  /\ hashChanges' = pending
                  /\ UNCHANGED <<hash, renders>>
        ELSE IF page \in AsyncPages
        THEN /\ mainContent' = LoadingContent(page)
             /\ renders' = renders \cup {page}
             /\ hashChanges' = pending
             /\ UNCHANGED hash
        ELSE /\ mainContent' = PageContent(page)
             /\ hashChanges' = pending
             /\ UNCHANGED <<hash, renders>>

\* initApp after getCurrentUser resolved with user
InitApp ==
    /\ pc = "loading"
    /\ \E user \in {SessionUser, Null} :
        /\ currentUser' = user
        /\ NavigateToCurrentHash(user, 0)
    /\ pc' = "running"
    /\ UNCHANGED <<op, candidates, cvData, text, result, uploadVars, callVars,
                   navbar>>

\* a link click, the address bar or the history changes the hash
ChangeHash ==
    /\ pc = "running"
    /\ hashChanges < MaxHashChanges
    /\ \E h \in Hashes \ {hash} : SetHash(h, hashChanges)
    /\ UNCHANGED <<pc, op, candidates, cvData, text, result, uploadVars,
                   callVars, currentUser, mainContent, navbar, renders>>

\* the hashchange listener runs for a queued event
HashChange ==
    /\ pc = "running"
    /\ hashChanges > 0
    /\ NavigateToCurrentHash(currentUser, hashChanges - 1)
    /\ UNCHANGED <<pc, op, candidates, cvData, text, result, uploadVars,
                   callVars, currentUser, navbar>>

\* the onAuthStateChange callback: currentUser = session?.user || null, then
\* handleAuthStateChange
AuthCallback(user) ==
    /\ currentUser' = user
    /\ IF Truthy(user)
       THEN navbar' = "block" /\ UNCHANGED <<hash, hashChanges>>
       ELSE navbar' = "none" /\ SetHash(HashOf(RootRoute), hashChanges)

AuthStateChange ==
    /\ pc = "running"
    /\ \E user \in {SessionUser, Null} :
        /\ Truthy(user) \/ hash = HashOf(RootRoute)
              \/ hashChanges < MaxHashChanges
        /\ AuthCallback(user)
    /\ UNCHANGED <<pc, op, candidates, cvData, text, result, uploadVars,
                   callVars, mainContent, renders>>

\* handleLogout, wired to the logout button once the navigation bar is
\* shown: signOut fires the callback with no session, then navigateTo('/')
HandleLogout ==
    /\ pc = "running"
    /\ navbar = "block"
    /\ hash = HashOf(RootRoute) \/ hashChanges < MaxHashChanges
    /\ \E signedOut \in BOOLEAN :
        IF signedOut
        THEN AuthCallback(Null)
        ELSE UNCHANGED <<currentUser, navbar, hash, hashChanges>>
    /\ UNCHANGED <<pc, op, candidates, cvData, text, result, uploadVars,
                   callVars, mainContent, renders>>

\* a suspended page render resumes after its await and writes its markup
\* into the container it was given; the companies and profiles pages return
\* without writing when the latest CV has no extracted data
CompleteRender ==
    /\ pc = "running"
    /\ \E page \in renders :
        /\ renders' = renders \ {page}
        /\ \E writes \in IF page = "dashboard" THEN {TRUE} ELSE BOOLEAN :
            mainContent' = IF writes THEN PageContent(page) ELSE mainContent
    /\ UNCHANGED <<pc, op, candidates, cvData, text, result, uploadVars,
                   callVars, hash, currentUser, navbar, hashChanges>>

NextRouter ==
    \/ InitApp
    \/ ChangeHash
    \/ HashChange
    \/ AuthStateChange
    \/ HandleLogout
    \/ CompleteRender

SpecRouter == InitRouter /\ [][NextRouter]_vars

(***************************************************************************)
(* The properties.                                                         *)
(***************************************************************************)
Done == pc = "done"
Ranked == Done /\ op \in {"rankCompanies", "rankProfiles"}
ValidProfile == cvData.t = "object"
IsList == candidates.t = "array"
Results == result.val

\* the text of a field as the statements below read it: nothing when missing
FieldText(x) == IF x.t = "string" THEN x.v ELSE <<>>

StatedSkillCount(cv) == IF cv.skills.t = "array" THEN Len(cv.skills.v) ELSE 0
StatedIndustries(cv) ==
    IF cv.industries.t = "array"
    THEN { cv.industries.v[i] : i \in 1..Len(cv.industries.v) } ELSE {}
StatedHasLocation(cv) == cv.personal.t = "object" /\ cv.personal.location.t = "string"
StatedContains(field, cv) ==
    /\ StatedHasLocation(cv)
    /\ field.t = "string"
    /\ Includes(field.v, cv.personal.location.v)

\* C1: every match_score attached by rankCompanies and rankProfiles lies in
\* [0, 1], i.e. between 0 and 100 hundredths
C1_ScoreInUnitInterval ==
    Ranked /\ ValidProfile
        => \A i \in 1..Len(Results) :
              Results[i].match_score >= 0 /\ Results[i].match_score <= 100

\* a ranking of companies that holds both a perfect and a zero score
C1_Witness ==
    /\ Ranked /\ ValidProfile /\ op = "rankCompanies"
    /\ Len(Results) >= 2
    /\ Results[1].match_score = 100
    /\ Results[Len(Results)].match_score = 0
    /\ IsNullish(Results[Len(Results)].candidate.industry)

\* C2: the returned list is sorted non-increasing by match_score
C2_SortedDescending ==
    Ranked => \A i \in 1..(Len(Results) - 1) :
                  Results[i].match_score >= Results[i + 1].match_score

\* a ranking that had to move the second candidate in front of the first
C2_Witness ==
    /\ Ranked /\ IsList /\ Len(Results) >= 2
    /\ Results[1].candidate = candidates.v[2]
    /\ Results[1].candidate # candidates.v[1]
    /\ Results[1].match_score > Results[2].match_score

\* the company score as stated, in hundredths times max(profile skills, 1)
StatedCompanyScore(company, cv) ==
    LET den == Max(StatedSkillCount(cv), 1)
        industry ==
            /\ company.industry.t = "string"
            /\ \E ind \in StatedIndustries(cv) :
                  Includes(ToLowerCase(company.industry.v), ToLowerCase(ind))
        nameAndDescription ==
            ToLowerCase(FieldText(company.name) \o <<" ">> \o FieldText(company.description))
        matched ==
            Cardinality({ i \in 1..StatedSkillCount(cv) :
                Includes(nameAndDescription, ToLowerCase(cv.skills.v[i].name.v)) })
        location ==
            IF StatedContains(company.location, cv) THEN 20
            ELSE IF company.location.t = "string" THEN 10 ELSE 0
        size == company.size.t = "string" /\ company.size.v \in {Size51, Size201}
    IN  (IF industry THEN 40 * den ELSE 0) + 30 * Min(matched, den)
        + location * den + (IF size THEN 10 * den ELSE 0)

\* profile skills [Python, AWS], industry Technology, against the company
\* {TechCorp, Technology, 'uses Python and AWS', 'SF', '51-200'}
C3_ExampleCompany ==
    Company(Str(TechCorp), Str(Technology), Str(Size51), Str(SF), Str(UsesPythonAndAWS))
C3_Example ==
    /\ Ranked /\ op = "rankCompanies" /\ ValidProfile
    /\ cvData.skills = Arr(<<Skill(Python), Skill(AWS)>>)
    /\ cvData.industries = Arr(<<Technology>>)
    /\ ~StatedHasLocation(cvData)
    /\ candidates = Arr(<<C3_ExampleCompany>>)

\* C3: the company match_score is the two-decimal rounding of the sum of the
\* industry (0.4), skills (0.3 * matched share), location (0.2 / 0.1 / 0) and
\* size (0.1) terms, and the example scores 0.9
C3_CompanyScoreFormula ==
    /\ Ranked /\ op = "rankCompanies" /\ ValidProfile
          => \A i \in 1..Len(Results) :
                Results[i].match_score =
                    ToFixed2(StatedCompanyScore(Results[i].candidate, cvData),
                             Max(StatedSkillCount(cvData), 1))
    /\ C3_Example => Len(Results) = 1 /\ Results[1].match_score = 90

C3_Witness == C3_Example /\ ~result.threw /\ Len(Results) = 1

\* the person score as stated, in hundredths times max(profile skills, 1)
StatedSeniorTitle(person) ==
    /\ person.current_role.t = "string"
    /\ \E w \in SeniorWords : Includes(ToLowerCase(person.current_role.v), w)

StatedExperienceCount(cv) == IF cv.experience.t = "array" THEN Len(cv.experience.v) ELSE 0

StatedPersonScore(person, cv) ==
    LET den == Max(StatedSkillCount(cv), 1)
        candidateSkills ==
            IF person.skills.t = "array"
            THEN { ToLowerCase(person.skills.v[j]) : j \in 1..Len(person.skills.v) }
            ELSE {}
        shared ==
            Cardinality({ i \in 1..StatedSkillCount(cv) :
                ToLowerCase(cv.skills.v[i].name.v) \in candidateSkills })
        headlineAndCompany ==
            ToLowerCase(FieldText(person.headline) \o <<" ">>
                        \o FieldText(person.current_company))
        interest ==
            \E ind \in StatedIndustries(cv) : Includes(headlineAndCompany, ToLowerCase(ind))
        seniority ==
            IF \/ StatedExperienceCount(cv) >= 5 /\ StatedSeniorTitle(person)
               \/ StatedExperienceCount(cv) < 5 /\ ~StatedSeniorTitle(person)
            THEN 20 ELSE 10
        location == StatedContains(person.location, cv)
    IN  40 * Min(shared, den) + (IF interest THEN 30 * den ELSE 0)
        + seniority * den + (IF location THEN 10 * den ELSE 0)

\* a profile with the single skill Kubernetes and >= 5 experience entries
\* against a 'Senior Engineer' with skills [Kubernetes, Docker]
C4_Example ==
    /\ Ranked /\ op = "rankProfiles" /\ ValidProfile
    /\ cvData.skills = Arr(<<Skill(Kubernetes)>>)
    /\ StatedExperienceCount(cvData) >= 5
    /\ IsList /\ Len(candidates.v) = 1
    /\ candidates.v[1].current_role = Str(SeniorEngineer)
    /\ candidates.v[1].skills = Arr(<<Kubernetes, Docker>>)

\* C4: the person match_score is the two-decimal rounding of the sum of the
\* shared-skills (0.4 * shared share), interest (0.3), seniority (0.2 / 0.1)
\* and location (0.1) terms, and the example gets the full 0.4 and 0.2
C4_PersonScoreFormula ==
    /\ Ranked /\ op = "rankProfiles" /\ ValidProfile
          => \A i \in 1..Len(Results) :
                Results[i].match_score =
                    ToFixed2(StatedPersonScore(Results[i].candidate, cvData),
                             Max(StatedSkillCount(cvData), 1))
    /\ C4_Example =>
          /\ ProfileSkillsTerm(candidates.v[1], cvData) = 40 * ScoreDen(cvData)
          /\ ProfileSeniorityTerm(candidates.v[1], cvData) = 20 * ScoreDen(cvData)
          /\ Len(Results) = 1 /\ Results[1].match_score >= 60

C4_Witness == C4_Example /\ ~result.threw /\ Len(Results) = 1

StatedSignalCount(s) ==
    (IF HasAt(s) THEN 1 ELSE 0) + (IF HasPhonePattern(s) THEN 1 ELSE 0)
    + (IF HasLinkedIn(s) THEN 1 ELSE 0) + (IF HasYearToken(s) THEN 1 ELSE 0)
    + (IF HasDegreeWord(s) THEN 1 ELSE 0)

\* C5: confidence_score = min(count_true / 5 + 0.2, 1.0); all five signals
\* give exactly 1.0 and none gives exactly 0.2
C5_ConfidenceFormula ==
    Done /\ op = "calculateAccuracyScore"
        => /\ 5 * result.val = Min(100 * StatedSignalCount(text) + 100, 500)
           /\ StatedSignalCount(text) = 5 => result.val = 100
           /\ StatedSignalCount(text) = 0 => result.val = 20

\* a text with all five signals has been scored
C5_Witness ==
    /\ Done /\ op = "calculateAccuracyScore"
    /\ StatedSignalCount(text) = 5
    /\ result.val = 100

\* C6: an empty, null or undefined candidate list gives an empty list and no
\* exception, for any profile
C6_EmptyCandidatesGiveEmptyList ==
    Ranked /\ (IsNullish(candidates) \/ candidates = Arr(<<>>))
        => result = [threw |-> FALSE, val |-> <<>>]

\* a null candidate list was ranked against a populated profile
C6_Witness ==
    /\ Ranked /\ candidates = Null
    /\ ValidProfile /\ Len(CvSkills(cvData)) > 0
    /\ result = [threw |-> FALSE, val |-> <<>>]

\* C7 as stated: an absent or empty profile gives an empty list, whatever the
\* candidate list contains
C7_AbsentOrEmptyProfileGivesEmptyList ==
    Ranked /\ (IsNullish(cvData) \/ cvData = EmptyProfile)
        => result = [threw |-> FALSE, val |-> <<>>]

\* C7, amended: a null or undefined profile gives an empty list, whatever the
\* candidate list contains; an empty profile object is scored like any other
\* profile and gives one result per candidate
C7_AbsentProfileGivesEmptyList ==
    /\ Ranked /\ IsNullish(cvData) => result = [threw |-> FALSE, val |-> <<>>]
    /\ Ranked /\ cvData = EmptyProfile /\ IsList
          => ~result.threw /\ Len(Results) = Len(candidates.v)

\* a list of several candidates was ranked against a null profile
C7_Witness ==
    /\ Ranked /\ cvData = Null
    /\ IsList /\ Len(candidates.v) >= 2
    /\ Results = <<>>

\* C8: with a valid profile, scoring, rationale construction and
\* conversation-starter generation raise no exception, whichever candidate
\* fields are missing or null
C8_NoExceptionOnMissingFields ==
    Ranked /\ ValidProfile /\ IsList
        => /\ ~result.threw
           /\ Len(Results) = Len(candidates.v)

\* a company without any field was ranked against a profile with skills,
\* industries and a location
C8_Witness ==
    /\ Ranked /\ ValidProfile /\ op = "rankCompanies"
    /\ Len(CvSkills(cvData)) > 0 /\ Len(CvIndustries(cvData)) > 0
    /\ Truthy(CvLocation(cvData))
    /\ candidates = Arr(<<Company(Null, Null, Null, Null, Null)>>)
    /\ ~result.threw /\ Len(Results) = 1

\* no profile skill, respectively industry, occurs in the literal text that
\* stands for two missing fields
NoSkillInPlaceholders(company, cv) ==
    \A i \in 1..Len(CvSkills(cv)) :
        ~Includes(CompanyText(company), ToLowerCase(CvSkills(cv)[i].name.v))
NoIndustryInPlaceholders(person, cv) ==
    \A i \in 1..Len(CvIndustries(cv)) :
        ~Includes(ProfileText(person), ToLowerCase(CvIndustries(cv)[i]))

ZeroTermsOfCompany(c, cv) ==
    /\ IsNullish(c.industry) => CompanyIndustryTerm(c, cv) = 0
    /\ IsNullish(c.name) /\ IsNullish(c.description) /\ NoSkillInPlaceholders(c, cv)
          => CompanySkillsTerm(c, cv) = 0
    /\ IsNullish(c.location) => CompanyLocationTerm(c, cv) = 0
    /\ IsNullish(c.size) => CompanySizeTerm(c, cv) = 0

ZeroTermsOfPerson(c, cv) ==
    /\ IsNullish(c.skills) => ProfileSkillsTerm(c, cv) = 0
    /\ IsNullish(c.headline) /\ IsNullish(c.current_company)
       /\ NoIndustryInPlaceholders(c, cv)
          => ProfileInterestTerm(c, cv) = 0
    /\ IsNullish(c.location) => ProfileLocationTerm(c, cv) = 0

NoDuplicates(xs) ==
    \A i, j \in 1..Len(xs) : xs[i] = xs[j] => i = j

\* C11: shared_skills of every person MatchResult contains no duplicates, for
\* every profile, one whose skills list repeats a name or lists case variants
\* of it included, and every candidate
C11_SharedSkillsHaveNoDuplicates ==
    Ranked /\ ValidProfile /\ op = "rankProfiles"
        => \A i \in 1..Len(Results) : NoDuplicates(Results[i].shared_skills)


Extracted == Done /\ op = "extractFields"

\* the k-th smallest member of a set of numbers
Kth(S, k) == CHOOSE x \in S : Cardinality({y \in S : y < x}) = k - 1

\* the lines of the text and, among them, the positions of the lines with a
\* year token and of the lines with a degree keyword
StatedLines == SplitLines(text)
StatedYearLines == {i \in 1..Len(StatedLines) : \E k \in 1..Len(StatedLines[i]) :
                                                    YearTokenAt(StatedLines[i], k)}
StatedDegreeLines ==
    {i \in 1..Len(StatedLines) : HasKeyword(StatedLines[i], DegreeKeywords)}

\* C14: for every text, the empty string and a text with none of the expected
\* sections included, each field extractor returns a value and never raises
C14_ExtractorsNeverRaise ==
    Extracted
        => /\ ~result.threw
           /\ result.val.personal.t = "object"
           /\ result.val.personal.name.t = "string"
           /\ result.val.personal.name.v # <<>>
           /\ result.val.summary.t = "string"
           /\ result.val.skills.t = "array"
           /\ result.val.experience.t = "array"
           /\ result.val.education.t = "array"
           /\ result.val.industries.t = "array"
           /\ result.val.career_goals.t = "string"
           /\ result.val.career_goals.v # <<>>
           /\ result.val.accuracy_score \in 20..100

\* the empty text gave the defaults
C14_EmptyTextGivesDefaults ==
    /\ Extracted /\ text = <<>> /\ ~result.threw
    /\ result.val.personal.name = Str(UnknownName)
    /\ result.val.skills = Arr(<<>>)
    /\ result.val.experience = Arr(<<>>)
    /\ result.val.career_goals = Str(DefaultCareerGoals)

\* a text without skills and degrees that ends on a line with a year token,
\* whose entry reads the line after the last one, gave a profile
C14_Witness ==
    /\ Extracted /\ ~result.threw
    /\ Len(StatedLines) \in StatedYearLines
    /\ StatedDegreeLines = {}
    /\ result.val.skills = Arr(<<>>)
    /\ result.val.education = Arr(<<>>)
    /\ Len(result.val.experience.v) >= 1
    /\ result.val.experience.v[Len(result.val.experience.v)].description = Str(<<>>)

\* C19: extractExperience returns at most 5 entries and extractEducation at
\* most 3; the entries kept are those of the first 5 (respectively 3)
\* qualifying lines in document order
C19_FirstEntriesKept ==
    Extracted /\ ~result.threw
        => LET experience == result.val.experience.v
               education == result.val.education.v
           IN  /\ Len(experience) = Min(Cardinality(StatedYearLines), 5)
               /\ Len(education) = Min(Cardinality(StatedDegreeLines), 3)
               /\ \A k \in 1..Len(experience) :
                     experience[k] = ExperienceEntry(StatedLines,
                         Kth(StatedYearLines, k))
               /\ \A k \in 1..Len(education) :
                     education[k] = EducationEntry(StatedLines,
                         Kth(StatedDegreeLines, k))

\* a text with more than five year lines and more than three degree lines
\* gave five experience and three education entries
C19_Witness ==
    /\ Extracted /\ ~result.threw
    /\ Cardinality(StatedYearLines) > 5
    /\ Cardinality(StatedDegreeLines) > 3
    /\ Len(result.val.experience.v) = 5
    /\ Len(result.val.education.v) = 3

\* the years named on a line
StatedYears(line) ==
    { ParseInt(SubSeq(line, i,
        i + 3)) : i \in {k \in 1..Len(line) : YearTokenAt(line, k)} }

\* C20: for every experience entry, start_period is the smallest and
\* end_period the largest year token on its line, whatever their order on the
\* line; so start <= end and duration_months = (end - start) * 12 is never
\* negative
C20_StartIsEarliestEndIsLatest ==
    Extracted /\ ~result.threw
        => \A k \in 1..Len(result.val.experience.v) :
              LET entry == result.val.experience.v[k]
                  years == StatedYears(StatedLines[Kth(StatedYearLines, k)])
                  start == ParseInt(entry.start_date.v)
                  end == ParseInt(entry.end_date.v)
              IN  /\ start = SetMin(years)
                  /\ end = SetMax(years)
                  /\ start <= end
                  /\ entry.duration_months = (end - start) * 12
                  /\ entry.duration_months >= 0


Parsed == Done /\ op = "parseCV"

\* the file is a PDF or DOCX whose bytes cannot be opened or one of whose
\* pages (or whose stream) cannot be decoded
StatedDecodeFails(f) ==
    /\ f.type \in {ALLOWED_FILE_TYPES.PDF, ALLOWED_FILE_TYPES.DOCX}
    /\ ~f.opens \/ \E i \in 1..Len(f.units) : f.units[i].t = "throw"

\* C12: if decoding fails at any point (opening the PDF, any single page, the
\* DOCX stream), parseCV returns a non-null error, extractedData = null and
\* accuracyScore = 0; no profile is built from the pages decoded before the
\* failure and no success result is returned
C12_FailedDecodeGivesError ==
    Parsed /\ StatedDecodeFails(file)
        => /\ ~result.threw
           /\ result.val.error.t = "error"
           /\ result.val.extractedData = Null
           /\ result.val.accuracyScore = 0
           /\ \A i \in 1..Len(result.val.steps) : result.val.steps[i] # "extract"

\* a PDF whose first page decoded and whose second page failed gave the
\* error result
C12_Witness ==
    /\ Parsed
    /\ file.type = ALLOWED_FILE_TYPES.PDF /\ file.opens
    /\ Len(file.units) >= 2
    /\ file.units[1].t = "string" /\ file.units[2].t = "throw"
    /\ result.val.error = Error("PDF extraction failed")
    /\ result.val.extractedData = Null

StatedSupportedTypes ==
    {ALLOWED_FILE_TYPES.PDF, ALLOWED_FILE_TYPES.DOCX, ALLOWED_FILE_TYPES.TXT}

\* C13: for a file whose type is not PDF, DOCX or plain text, parseCV returns
\* the 'unsupported' error with extractedData = null and accuracyScore = 0
\* and neither decodes text nor extracts fields; in every outcome of parseCV
\* exactly one of error and extractedData is non-null
C13_UnsupportedTypeGivesError ==
    Parsed
        => /\ ~result.threw
           /\ (result.val.error.t = "null") # (result.val.extractedData.t = "null")
           /\ file.type \notin StatedSupportedTypes
                 => /\ result.val.error = Error("Unsupported file type")
                    /\ result.val.extractedData = Null
                    /\ result.val.accuracyScore = 0
                    /\ result.val.steps = <<>>

\* a file of an unsupported type with readable text in it was refused
C13_Witness ==
    /\ Parsed
    /\ file.type = "image/png"
    /\ file.opens /\ file.units[1].t = "string" /\ file.units[1].v # <<>>
    /\ result.val.error = Error("Unsupported file type")
    /\ result.val.steps = <<>>


\* C17: parsing_status only moves pending -> processing -> completed or
\* pending -> processing -> failed: every record that reaches completed or
\* failed was set to processing before, and completed and failed are final
C17_StatusMovesThroughProcessing ==
    [][ (record.t = "row" /\ record'.t = "row"
          /\ record'.parsing_status # record.parsing_status)
            => <<record.parsing_status, record'.parsing_status>>
                  \in { <<PARSING_STATUS.PENDING, PARSING_STATUS.PROCESSING>>,
                        <<PARSING_STATUS.PROCESSING,
            PARSING_STATUS.COMPLETED>>,
                        <<PARSING_STATUS.PROCESSING,
            PARSING_STATUS.FAILED>> } ]_vars

\* C18: every record whose parsing_status is 'completed' has extracted_data
\* with at least one skill
C18_CompletedRecordHasSkill ==
    record.t = "row" /\ record.parsing_status = PARSING_STATUS.COMPLETED
        => /\ record.extracted_data.t = "object"
           /\ Len(record.extracted_data.skills.v) >= 1


\* how often a record occurs in a list
Occurrences(x, xs) == Cardinality({i \in 1..Len(xs) : xs[i] = x})

\* the fields a MatchResult adds to the fields of its candidate
StatedAddedFields ==
    IF op = "rankCompanies" THEN {"match_score", "matching_criteria"}
    ELSE {"match_score", "shared_skills", "shared_interests",
        "conversation_starter"}

StatedAloneResult(c) ==
    CASE c.kind = "parseCV" -> parseCV(c.file)
      [] c.kind = "rankCompanies" -> rankCompanies(c.candidates, c.cvData)
      [] c.kind = "rankProfiles" -> rankProfiles(c.candidates, c.cvData)

StatedTemplate(sharedSkills, sharedInterests) ==
    IF sharedSkills # <<>> /\ sharedInterests # <<>> THEN "combined"
    ELSE IF sharedSkills # <<>> THEN "skill"
    ELSE IF sharedInterests # <<>> THEN "interest"
    ELSE "generic"

\* C21: the conversation_starter of every result of rankProfiles uses the
\* template the priority picks for the shared_skills and shared_interests of
\* the same result, and names the first entry of each list it mentions
C21_StarterFollowsSharedLists ==
    Ranked /\ op = "rankProfiles"
        => \A i \in 1..Len(Results) :
              LET r == Results[i]
                  starter == r.conversation_starter
              IN  /\ starter.template
                        = StatedTemplate(r.shared_skills, r.shared_interests)
                  /\ r.shared_skills # <<>>
                        => starter.skill = Str(r.shared_skills[1])
                  /\ r.shared_skills = <<>> => starter.skill = NotReferenced
                  /\ r.shared_interests # <<>>
                        => starter.interest = Str(r.shared_interests[1])
                  /\ r.shared_interests = <<>> => starter.interest = NotReferenced

\* a ranking that uses two different templates: the skill template over a
\* list of two different shared skills, and the interest template
C21_Witness ==
    /\ Ranked /\ op = "rankProfiles" /\ Len(Results) >= 2
    /\ \E j, k \in 1..Len(Results) :
          /\ Results[j].conversation_starter.template = "skill"
          /\ Len(Results[j].shared_skills) >= 2
          /\ Results[j].shared_skills[1] # Results[j].shared_skills[2]
          /\ Results[j].conversation_starter.skill = Str(Results[j].shared_skills[1])
          /\ Results[k].conversation_starter.template = "interest"
          /\ Results[k].shared_skills = <<>>

\* the candidate's name up to its first space, as the statement reads it
StatedFirstName(person) ==
    LET name == person.name.v
        spaces == {k \in 1..Len(name) : name[k] = " "}
    IN  IF spaces = {} THEN name ELSE SubSeq(name, 1, SetMin(spaces) - 1)

\* C22 as stated: every conversation_starter, whichever template it uses,
\* references the candidate's first name, current role and current company
C22_EveryTemplateReferencesAllThree ==
    Ranked /\ op = "rankProfiles"
        => \A i \in 1..Len(Results) :
              LET starter == Results[i].conversation_starter
              IN  /\ starter.first_name # NotReferenced
                  /\ starter.current_role # NotReferenced
                  /\ starter.current_company # NotReferenced

\* C22 as the templates are: every conversation_starter references the first
\* name (the name up to its first space) and the current company of its
\* candidate; the current role is referenced by the combined template and by
\* no other
C22_TemplateReferences ==
    Ranked /\ op = "rankProfiles"
        => \A i \in 1..Len(Results) :
              LET r == Results[i]
                  starter == r.conversation_starter
              IN  /\ starter.first_name # NotReferenced
                  /\ r.candidate.name.t = "string"
                        => starter.first_name = Str(StatedFirstName(r.candidate))
                  /\ starter.current_company # NotReferenced
                  /\ r.candidate.current_company.t = "string"
                        => starter.current_company = r.candidate.current_company
                  /\ starter.template = "combined"
                        => /\ starter.current_role # NotReferenced
                           /\ r.candidate.current_role.t = "string"
                                => starter.current_role = r.candidate.current_role
                  /\ starter.template # "combined"
                        => starter.current_role = NotReferenced

\* a ranking of two named candidates with a role and a company, one greeted
\* with the combined template and one with another template
C22_Witness ==
    /\ Ranked /\ op = "rankProfiles" /\ Len(Results) >= 2
    /\ \E i, j \in 1..Len(Results) :
          /\ Results[i].conversation_starter.template = "combined"
          /\ Results[j].conversation_starter.template \in {"skill", "interest"}
          /\ \A k \in {i, j} :
                /\ Results[k].candidate.name.t = "string"
                /\ Results[k].conversation_starter.first_name.v
                      # Results[k].candidate.name.v
                /\ Results[k].candidate.current_role.t = "string"
                /\ Results[k].candidate.current_company.t = "string"


\* what the statements about the contact block read off the text: whether it
\* has a character that is not white space, an "@", ten digits, the profile
\* path; and the contact details the texts are assembled with
StatedBlank == \A k \in 1..Len(text) : text[k] \in {" ", "\n", "\t"}
StatedHasAt == \E k \in 1..Len(text) : text[k] = "@"
StatedDigitCount == Cardinality({k \in 1..Len(text) : IsDigit(text[k])})
StatedHasProfilePath == Includes(ToLowerCase(text), <<"l", "i", "n", "k", "e",
            "d", "i", "n", ".", "c", "o", "m", "/", "i", "n", "/">>)
StatedEmail == <<"j", "d", "@", "x", ".", "i", "o">>
StatedPhones == {<<"5", "5", "5", "-", "1", "2", "3", "-", "4", "5", "6",
            "7">>, <<"+", "1", " ", "(", "5", "5", "5", ")", " ", "1", "2",
            "3", "-", "4", "5", "6", "7">>}
StatedProfilePaths == {<<"L", "i", "n", "k", "e", "d", "I", "n", ".", "c",
            "o", "m", "/", "i", "n", "/", "j", "d">>, <<"L", "i", "n", "k",
            "e", "d", "I", "n", ".", "c", "o", "m", "/", "i", "n", "/", "j",
            "d", "-", "1">>}
StatedContact == result.val.personal

\* what C23 states of the email, phone and profile URL: each is null when the
\* text has nothing to match, and otherwise the matched part of the text, the
\* profile path prefixed with https://
StatedMatchedOrNull ==
    /\ ~StatedHasAt => StatedContact.email = Null
    /\ Includes(text, StatedEmail) => StatedContact.email = Str(StatedEmail)
    /\ StatedDigitCount < 10 => StatedContact.phone = Null
    /\ \A phone \in StatedPhones :
          Includes(text,
              phone) /\ (\A other \in StatedPhones : Len(other) > Len(phone)
                                        => ~Includes(text, other))
              => StatedContact.phone = Str(phone)
    /\ ~StatedHasProfilePath => StatedContact.linkedin_url = Null
    /\ \A path \in StatedProfilePaths :
          Includes(text,
              path) /\ (\A other \in StatedProfilePaths : Len(other) > Len(path)
                                       => ~Includes(text, other))
              => StatedContact.linkedin_url = Str(<<"h", "t", "t", "p", "s",
            ":", "/", "/">> \o path)
    /\ StatedContact.location = Null

\* C23 as stated: every contact field without a match is null, the name of a
\* text without a non-empty line included; a matched profile path is returned
\* as a full https:// URL
C23_UnmatchedFieldsAreNull ==
    Extracted
        => /\ ~result.threw
           /\ StatedMatchedOrNull
           /\ StatedBlank => StatedContact.name = Null

\* C23 as the extractor is: email, phone and profile URL are null when
\* unmatched and the matched text otherwise (the URL with https:// in front);
\* the name is the first non-empty line, trimmed, and the string 'Unknown'
\* when the text has no non-empty line; it is never null
C23_UnmatchedFieldsAreNullNameUnknown ==
    Extracted
        => /\ ~result.threw
           /\ StatedMatchedOrNull
           /\ StatedBlank => StatedContact.name = Str(<<"U", "n", "k", "n",
            "o", "w", "n">>)
           /\ ~StatedBlank
                => StatedContact.name = Str(Trim(StatedLines[SetMin({i \in 1..Len(StatedLines) :
                                                Trim(StatedLines[i]) # <<>>})]))

\* a text with a profile path and an address but no phone number: the first
\* two were returned, the URL in full, and the phone is null
C23_Witness ==
    /\ Extracted /\ ~result.threw
    /\ StatedContact.linkedin_url = Str(<<"h", "t", "t", "p", "s", ":", "/",
            "/", "L", "i", "n", "k", "e", "d", "I", "n", ".", "c", "o", "m",
            "/", "i", "n", "/", "j", "d">>)
    /\ StatedContact.email = Str(StatedEmail)
    /\ StatedContact.phone = Null
    /\ StatedDigitCount < 10


\* C24: in every company rationale the location_match flag is true exactly
\* when the candidate's location contains the profile's location string, which
\* is exactly when the location term of the score is the full 0.2; it is false
\* when the profile has no location or the candidate's location is null
C24_LocationFlagIsLocationCredit ==
    Ranked /\ ValidProfile /\ op = "rankCompanies"
        => \A i \in 1..Len(Results) :
              LET r == Results[i]
                  flag == r.matching_criteria.location_match
              IN  /\ flag <=> StatedContains(r.candidate.location, cvData)
                  /\ flag <=> CompanyLocationTerm(r.candidate, cvData)
                                  = 20 * ScoreDen(cvData)
                  /\ ~StatedHasLocation(cvData) => ~flag
                  /\ r.candidate.location.t # "string" => ~flag


\* the number of true signals among the four that are not the degree signal
StatedOtherSignals ==
    (IF HasAt(text) THEN 1 ELSE 0) + (IF HasPhonePattern(text) THEN 1 ELSE 0)
    + (IF HasLinkedIn(text) THEN 1 ELSE 0) + (IF HasYearToken(text) THEN 1 ELSE 0)

\* C25: the degree signal of the confidence checklist is true for every text
\* that contains a degree keyword of the education extractor (bachelor, master,
\* phd, mba, b.s., m.s., b.a., m.a., in any case); so whenever extractEducation
\* yields an entry the degree signal counts towards the confidence score
C25_DegreeSignalCoversEducationKeywords ==
    Extracted /\ ~result.threw
        => /\ HasKeyword(text, {<<"b", "a", "c", "h", "e", "l", "o", "r">>,
            <<"m", "a", "s", "t", "e", "r">>, <<"p", "h", "d">>, <<"m", "b",
            "a">>, <<"b", ".", "s", ".">>, <<"m", ".", "s", ".">>, <<"b", ".",
            "a", ".">>, <<"m", ".", "a", ".">>})
                => HasDegreeWord(text)
           /\ result.val.education.v # <<>>
                => /\ HasDegreeWord(text)
                   /\ result.val.accuracy_score
                        = Min(20 * (StatedOtherSignals + 1) + 20, 100)


\* the score the ranking gave a candidate, and the candidates of a list of
\* records that were given the score n, in the order of the list
StatedScoreOf(c) == (CHOOSE r \in {Results[i] : i \in 1..Len(Results)} :
                        r.candidate = c).match_score
StatedTied(cs, n) == SelectIdx(cs,
    [i \in 1..Len(cs) |-> StatedScoreOf(cs[i]) = n], 1)

\* C26: candidates that receive the same match_score appear in the output of
\* rankCompanies and rankProfiles in the order they have in the input list
C26_TiesKeepInputOrder ==
    Ranked /\ IsList /\ ~result.threw /\ Results # <<>>
        => \A k \in 1..Len(Results) :
              StatedTied([i \in 1..Len(Results) |-> Results[i].candidate],
                         Results[k].match_score)
                  = StatedTied(candidates.v, Results[k].match_score)

\* two different candidates were given the same positive score and the one
\* that is first in the input list is first in the output
C26_Witness ==
    /\ Ranked /\ IsList /\ ~result.threw /\ Len(Results) >= 2
    /\ Results[1].match_score = Results[2].match_score
    /\ Results[1].match_score > 0
    /\ Results[1].candidate # Results[2].candidate
    /\ Results[1].candidate = candidates.v[1]


\* C27: the contact location of every profile parseCV produces is null, so
\* ranking against it never awards the matching-location credit: every company
\* match_score is at most 0.9, its location term being 0.1 or 0, and every
\* person match_score is at most 0.9, its location term being 0
C27_ParsedProfileNeverGetsLocationCredit ==
    /\ file # Null /\ pc # "parsing" /\ cvData # Null
          => cvData.personal.location = Null
    /\ file # Null /\ Ranked
          => /\ ~result.threw
             /\ \A i \in 1..Len(Results) :
                   /\ Results[i].match_score <= 90
                   /\ op = "rankCompanies"
                        => CompanyLocationTerm(Results[i].candidate, cvData)
                               \in {0, 10 * ScoreDen(cvData)}
                   /\ op = "rankProfiles"
                        => ProfileLocationTerm(Results[i].candidate,
                            cvData) = 0

\* the profile of a text that names the city of a candidate which matches it
\* in every other respect: the candidate was ranked first with 0.9
C27_Witness ==
    /\ file = CityFile /\ Ranked /\ ~result.threw
    /\ cvData # Null /\ Len(cvData.skills.v) >= 2 /\ cvData.industries.v # <<>>
    /\ Len(Results) = 2
    /\ Results[1].match_score = 90
    /\ Results[1].candidate.location = Str(SF)
    /\ Results[2].match_score < 90


\* the double a decimal literal with two decimals denotes
StatedDecimal(hundredths) == DoubleDiv(hundredths, 100)

\* one unit in the last place above a double
StatedNextUp(x) == DoubleRounded(x.e, x.m, TRUE)

Scored == Done /\ op = "calculateAccuracyScore"

\* C28 as stated: confidence_score only takes the values 0.2, 0.4, 0.6, 0.8
\* and 1.0, does not decrease when a further signal becomes true, and is 1.0
\* exactly when at least four of the five signals are true
C28_ScoreIsAMultipleOfOneFifth ==
    Scored
        => /\ result.double \in {StatedDecimal(20), StatedDecimal(40),
            StatedDecimal(60),
                                 StatedDecimal(80), StatedDecimal(100)}
           /\ \A n \in StatedSignalCount(text)..5 :
                 ~DoubleLess(AccuracyDouble(n), result.double)
           /\ result.double = StatedDecimal(100) <=> StatedSignalCount(text) >= 4

\* C28 as the Number is: confidence_score only takes the values 0.2, 0.4,
\* 0.6000000000000001 (the double after 0.6, for two signals), 0.8 and 1.0,
\* one value for each number of signals up to four; it does not decrease when
\* a further signal becomes true, and is 1.0 exactly when at least four of
\* the five signals are true
C28_ScoreIsWithinOneUlpOfAMultiple ==
    Scored
        => /\ result.double
                = CASE StatedSignalCount(text) = 0 -> StatedDecimal(20)
                    [] StatedSignalCount(text) = 1 -> StatedDecimal(40)
                    [] StatedSignalCount(text) = 2 -> StatedNextUp(StatedDecimal(60))
                    [] StatedSignalCount(text) = 3 -> StatedDecimal(80)
                    [] OTHER -> StatedDecimal(100)
           /\ \A n \in StatedSignalCount(text)..5 :
                 ~DoubleLess(AccuracyDouble(n), result.double)
           /\ result.double = StatedDecimal(100) <=> StatedSignalCount(text) >= 4
           /\ result.val = 20 * Min(StatedSignalCount(text) + 1, 5)

\* a text with two signals was scored 0.6000000000000001, which is more than
\* 0.6 and less than the score of a text with three signals
C28_Witness ==
    /\ Scored /\ StatedSignalCount(text) = 2
    /\ DoubleLess(StatedDecimal(60), result.double)
    /\ DoubleLess(result.double, AccuracyDouble(3))
    /\ result.val = 60


\* C29: when handleFileUpload has shown success, the stored record has
\* parsing_status 'completed' and holds the extracted data; when parsing
\* failed, the record has parsing_status 'failed' and its parsing_error set
\* by the time the failure is shown; also when a database update returned an
\* error
C29_MessageAgreesWithRecord ==
    Done /\ op = "handleFileUpload"
        => /\ message.kind = "success"
                => /\ record.t = "row"
                   /\ record.parsing_status = PARSING_STATUS.COMPLETED
                   /\ record.extracted_data = result.val.extractedData
                   /\ record.extracted_data.t = "object"
           /\ record.t = "row" /\ result.val.error.t = "error"
                => /\ message.kind = "error"
                   /\ record.parsing_status = PARSING_STATUS.FAILED
                   /\ record.parsing_error = Str(result.val.error.message)


\* the main content shows a page of a protected route
ShowsProtectedPage(content) == content.page \in ProtectedPages

\* C30: in every interleaving of hash changes, auth-state callbacks and
\* asynchronous page renders, the main content never comes to show a
\* protected page while currentUser is null: the router answers an
\* unauthenticated navigation to a protected route by setting the hash to
\* the login route and leaving the content alone, and no step taken without
\* a user, the late completion of a render started before the sign-out
\* included, puts a protected page into the main content
C30_NoProtectedPageWithoutUser ==
    [][/\ (HashChange /\ currentUser = Null /\ isProtected(CurrentRoute(hash)))
            => (hash' = HashOf(RootRoute) /\ mainContent' = mainContent)
       /\ (currentUser' = Null /\ mainContent' # mainContent)
            => ~ShowsProtectedPage(mainContent')]_vars

=============================================================================
